---- MODULE Spec2Model ----
(***************************************************************************)
(* Model of the VM / remote-access detection system:                       *)
(*   - the agent-side detectors (sub-check outcomes -> score, triggered),  *)
(*   - the server-side DecisionFusionEngine.analyze (telemetry -> verdict),*)
(*     including the IEEE-754 double arithmetic Python performs on the     *)
(*     weighted sum, because the risk level is decided on the unrounded    *)
(*     double while the reported risk_score is round(total, 2).            *)
(***************************************************************************)
EXTENDS Integers, Sequences, FiniteSets, TLC

VARIABLES data, verdict, status, detector, result,
          facts, instance, previous, calls,
          pc, snapshot, cycle, posted, response,
          monitor, frame, world

serverVars == <<data, verdict, status>>
detectVars == <<detector, result>>
repeatVars == <<facts, instance, previous, calls>>
agentVars  == <<pc, snapshot, cycle, posted, response>>
monitorVars == <<monitor, frame, world>>

vars == <<serverVars, detectVars, repeatVars, agentVars, monitorVars>>

\* what an action of one part of the system leaves alone
exceptServer == <<detectVars, repeatVars, agentVars, monitorVars>>
exceptDetect == <<serverVars, repeatVars, agentVars, monitorVars>>
exceptRepeat == <<serverVars, agentVars, monitorVars>>
exceptMonitor == <<serverVars, detectVars, repeatVars, agentVars>>

(***************************************************************************)
(* Arbitrary-precision naturals: little-endian sequences of limbs.         *)
(* They carry the 53-bit significands of Python floats.                    *)
(***************************************************************************)
LimbBits == 12
LimbBase == 4096

Max(a, b) == IF a >= b THEN a ELSE b
Min(a, b) == IF a <= b THEN a ELSE b

Limb(a, i) == IF i <= Len(a) THEN a[i] ELSE 0

RECURSIVE BCarry(_, _)
BCarry(a, c) ==
    IF a = <<>>
    THEN IF c = 0 THEN <<>> ELSE <<c % LimbBase>> \o BCarry(<<>>, c \div LimbBase)
    ELSE LET t == Head(a) + c
         IN  <<t % LimbBase>> \o BCarry(Tail(a), t \div LimbBase)

RECURSIVE BStrip(_)
BStrip(a) ==
    IF a = <<>> THEN <<>>
    ELSE IF a[Len(a)] = 0 THEN BStrip(SubSeq(a, 1, Len(a) - 1)) ELSE a

BFromInt(n) == BCarry(<<>>, n)

BAdd(a, b) == BStrip(BCarry([i \in 1..Max(Len(a), Len(b)) |-> Limb(a, i) + Limb(b, i)], 0))

BMulSmall(a, k) == BStrip(BCarry([i \in 1..Len(a) |-> a[i] * k], 0))

RECURSIVE BMul(_, _)
BMul(a, b) ==
    IF b = <<>> THEN <<>>
    ELSE BAdd(BMulSmall(a, Head(b)), BStrip(<<0>> \o BMul(a, Tail(b))))

\* quotient and remainder of a by a small k (k <= LimbBase)
RECURSIVE BDivSmall(_, _)
BDivSmall(a, k) ==
    IF a = <<>> THEN [q |-> <<>>, r |-> 0]
    ELSE LET hi == BDivSmall(Tail(a), k)
             t  == hi.r * LimbBase + Head(a)
         IN  [q |-> <<t \div k>> \o hi.q, r |-> t % k]

BitLenSmall(x) == IF x = 0 THEN 0 ELSE CHOOSE n \in 1..LimbBits : 2^(n-1) <= x /\ x < 2^n

BBitLen(a) ==
    LET s == BStrip(a)
    IN  IF s = <<>> THEN 0 ELSE (Len(s) - 1) * LimbBits + BitLenSmall(s[Len(s)])

BShl(a, n) ==
    BStrip([i \in 1..(n \div LimbBits) |-> 0] \o BMulSmall(a, 2^(n % LimbBits)))

BShr(a, n) ==
    LET q == n \div LimbBits
    IN  IF q >= Len(a) THEN <<>>
        ELSE BStrip(BDivSmall(SubSeq(a, q + 1, Len(a)), 2^(n % LimbBits)).q)

BOdd(a) == a # <<>> /\ a[1] % 2 = 1

BLowZero(a, n) == BShl(BShr(a, n), n) = BStrip(a)

RECURSIVE BLessAt(_, _, _)
BLessAt(a, b, i) ==
    IF i = 0 THEN FALSE
    ELSE IF a[i] # b[i] THEN a[i] < b[i] ELSE BLessAt(a, b, i - 1)

BLess(a, b) ==
    LET x == BStrip(a)
        y == BStrip(b)
    IN  IF Len(x) # Len(y) THEN Len(x) < Len(y) ELSE BLessAt(x, y, Len(x))

\* a - b - c from limb i on, for a >= b + c
RECURSIVE BSubAt(_, _, _, _)
BSubAt(a, b, i, c) ==
    IF i > Len(a) THEN <<>>
    ELSE LET t == a[i] - Limb(b, i) - c
         IN  <<IF t < 0 THEN t + LimbBase ELSE t>> \o BSubAt(a, b, i + 1, IF t < 0 THEN 1 ELSE 0)

BSub(a, b) == BStrip(BSubAt(a, b, 1, 0))

Abs(n) == IF n < 0 THEN 0 - n ELSE n

RECURSIVE BToInt(_)
BToInt(a) == IF a = <<>> THEN 0 ELSE Head(a) + LimbBase * BToInt(Tail(a))

(***************************************************************************)
(* IEEE-754 binary64: [neg, m, e] stands for (-1)^neg * m * 2^e with       *)
(* 2^52 <= m < 2^53, or m = <<>> for 0.0.  Every operation rounds to       *)
(* nearest, ties to even, as CPython's float does.                         *)
(***************************************************************************)
MantBits == 53

FZero == [neg |-> FALSE, m |-> <<>>, e |-> 0]

\* the magnitude x with a sign; no operation here produces -0.0
Signed(neg, x) == [neg |-> neg /\ x.m # <<>>, m |-> x.m, e |-> x.e]

\* round to nearest, ties to even: q is the kept part, guard the first
\* dropped bit, sticky whether any later dropped bit is set
RoundUp(q, guard, sticky) ==
    IF guard /\ (sticky \/ BOdd(q)) THEN BAdd(q, <<1>>) ELSE q

\* n / 2^d rounded to an integer, d >= 1
BShrRound(n, d) == RoundUp(BShr(n, d), BOdd(BShr(n, d - 1)), ~BLowZero(n, d - 1))

\* rounding up may carry into a 54th bit
Renormalize(q, e) ==
    IF BBitLen(q) > MantBits THEN [m |-> BShr(q, 1), e |-> e + 1] ELSE [m |-> q, e |-> e]

Normalize(n, e, len) ==
    IF len = 0 THEN FZero
    ELSE IF len <= MantBits
    THEN [m |-> BShl(n, MantBits - len), e |-> e - (MantBits - len)]
    ELSE Renormalize(BShrRound(n, len - MantBits), e + (len - MantBits))

\* the double nearest to n * 2^e
RoundToDouble(n, e) == Normalize(n, e, BBitLen(n))

FFromInt(n) == Signed(n < 0, RoundToDouble(BFromInt(Abs(n)), 0))

FMul(x, y) == Signed(x.neg # y.neg, RoundToDouble(BMul(x.m, y.m), x.e + y.e))

\* |x| < |y|
MagLess(x, y) ==
    IF y.m = <<>> THEN FALSE
    ELSE IF x.m = <<>> THEN TRUE
    ELSE IF x.e # y.e THEN x.e < y.e
    ELSE BLess(x.m, y.m)

Aligned(x, lo) == BShl(x.m, x.e - lo)

MagAdd(x, y, lo) == RoundToDouble(BAdd(Aligned(x, lo), Aligned(y, lo)), lo)

\* |x| - |y| for |x| >= |y|
MagSub(x, y, lo) == RoundToDouble(BSub(Aligned(x, lo), Aligned(y, lo)), lo)

FAdd(x, y) ==
    IF x.m = <<>> THEN y
    ELSE IF y.m = <<>> THEN x
    ELSE IF x.neg = y.neg THEN Signed(x.neg, MagAdd(x, y, Min(x.e, y.e)))
    ELSE IF MagLess(x, y) THEN Signed(y.neg, MagSub(y, x, Min(x.e, y.e)))
    ELSE Signed(x.neg, MagSub(x, y, Min(x.e, y.e)))

\* the quotient of |n| / k to 60 fractional bits plus a sticky bit
QuotientBits(d) == BAdd(BMulSmall(BStrip(d.q), 2), BFromInt(IF d.r = 0 THEN 0 ELSE 1))

\* n / k for integers n and 0 < k <= LimbBase, rounded once
FDivInt(n, k) ==
    Signed(n < 0, RoundToDouble(QuotientBits(BDivSmall(BShl(BFromInt(Abs(n)), 60), k)), -61))

FLess(x, y) ==
    IF x.neg # y.neg THEN x.neg
    ELSE IF x.neg THEN MagLess(y, x)
    ELSE MagLess(x, y)

FGeInt(x, n) == ~FLess(x, FFromInt(n))

\* the integer nearest to 100 * |x| (|x| < 2^52, so the exponent is negative)
MagRound2(x) == BToInt(BShrRound(BMulSmall(x.m, 100), 0 - x.e))

\* round(x, 2), reported in hundredths
Round2(x) ==
    IF x.m = <<>> THEN 0
    ELSE IF x.neg THEN 0 - MagRound2(x)
    ELSE MagRound2(x)


(***************************************************************************)
(* Telemetry maps.  A dict is a function from its keys; {} is the empty    *)
(* function; dict.get(k, default) is Get.                                  *)
(***************************************************************************)
EmptyDict == <<>>

Get(r, k, d) == IF k \in DOMAIN r THEN r[k] ELSE d

\* points added when a check holds; the finding appended when it holds
Cond(b, x) == IF b THEN x ELSE 0

Finding(b, f) == IF b THEN <<f>> ELSE <<>>

\* "Remote Tools" in f, for the findings RemoteAccessDetector.detect emits
IsRemoteToolsFinding(f) == f \in {"Remote Tools Running", "Remote Tools Installed"}

\* "display" in d.lower(), for the details ScreenSharingDetector.detect emits
IsDisplayDetail(d) == d \in {"displays detected"}

(***************************************************************************)
(* DecisionFusionEngine                                                    *)
(***************************************************************************)
weights_spec ==
    [vm      |-> FDivInt(35, 100),
     remote  |-> FDivInt(40, 100),
     screen  |-> FDivInt(25, 100),
     anomaly |-> FDivInt(20, 100),
     ids     |-> FDivInt(30, 100)]

weights_swapped ==
    [vm      |-> FDivInt(40, 100),
     remote  |-> FDivInt(35, 100),
     screen  |-> FDivInt(20, 100),
     anomaly |-> FDivInt(15, 100),
     ids     |-> FDivInt(25, 100)]

weights ==
    [vm      |-> FDivInt(35, 100),
     remote  |-> FDivInt(40, 100),
     screen  |-> FDivInt(20, 100),
     anomaly |-> FDivInt(15, 100),
     ids     |-> FDivInt(25, 100)]

ProcessPenalty == 15

Classify_swapped(total_risk) ==
    IF FGeInt(total_risk, 75)
    THEN [level |-> "CRITICAL", actions |-> <<"TERMINATE_SESSION", "FLAG_ADMIN", "CAPTURE_EVIDENCE">>]
    ELSE IF FGeInt(total_risk, 50)
    THEN [level |-> "HIGH", actions |-> <<"LOG_EVENT", "INCREASE_SAMPLING_RATE">>]
    ELSE IF FGeInt(total_risk, 25)
    THEN [level |-> "MEDIUM", actions |-> <<"LOG_EVENT", "INCREASE_SAMPLING_RATE">>]
    ELSE [level |-> "LOW", actions |-> <<"CONTINUE_MONITORING">>]

\* the if/elif chain on the unrounded total
Classify(total_risk) ==
    IF FGeInt(total_risk, 75)
    THEN [level |-> "CRITICAL", actions |-> <<"TERMINATE_SESSION", "FLAG_ADMIN", "CAPTURE_EVIDENCE">>]
    ELSE IF FGeInt(total_risk, 50)
    THEN [level |-> "HIGH", actions |-> <<"WARN_USER", "ENABLE_STRICT_LOGGING", "DISABLE_CLIPBOARD">>]
    ELSE IF FGeInt(total_risk, 25)
    THEN [level |-> "MEDIUM", actions |-> <<"LOG_EVENT", "INCREASE_SAMPLING_RATE">>]
    ELSE [level |-> "LOW", actions |-> <<"CONTINUE_MONITORING">>]

\* The products analyze forms, tabulated once for every integer domain score
\* a result may carry: weights['vm'] * (confidence / 100.0) * 100,
\* weights[...] * risk.  analyze does not check that a score is in 0..100.
ScoreRange == -100..100

VmTerm == [c \in ScoreRange |-> FMul(FMul(weights.vm, FDivInt(c, 100)), FFromInt(100))]

RemoteTerm == [s \in ScoreRange |-> FMul(weights.remote, FFromInt(s))]

ScreenTerm == FMul(weights.screen, FFromInt(100))

AnomalyTerm == [s \in ScoreRange |-> FMul(weights.anomaly, FFromInt(s))]

IdsTerm == [s \in ScoreRange |-> FMul(weights.ids, FFromInt(s))]

ProcessTerm == FFromInt(ProcessPenalty)

\* min(score, 100)
CapScore(score) == IF FLess(FFromInt(100), score) THEN FFromInt(100) ELSE score

\* the running (score, triggers) pair after each numbered block of analyze
VmBlock(d, acc) ==
    LET vm_res == Get(d, "vm_data", EmptyDict)
    IN  IF Get(vm_res, "is_vm", FALSE)
        THEN LET confidence == Get(vm_res, "confidence", 50)
             IN  [score    |-> FAdd(acc.score, VmTerm[confidence]),
                  triggers |-> Append(acc.triggers, "Virtual Machine Detected")]
        ELSE acc

RemoteBlock_inverted(d, acc) ==
    LET remote_res == Get(d, "remote_data", EmptyDict)
    IN  IF Get(remote_res, "remote_detected", FALSE)
        THEN [score    |-> FAdd(acc.score, RemoteTerm[0 - Get(remote_res, "risk_score", 0)]),
              triggers |-> Append(acc.triggers, "Remote Access Detected")]
        ELSE acc

RemoteBlock(d, acc) ==
    LET remote_res == Get(d, "remote_data", EmptyDict)
    IN  IF Get(remote_res, "remote_detected", FALSE)
        THEN LET risk     == Get(remote_res, "risk_score", 0)
                 findings == Get(remote_res, "findings", <<>>)
                 tools    == SelectSeq(findings, IsRemoteToolsFinding)
             IN  [score    |-> FAdd(acc.score, RemoteTerm[risk]),
                  triggers |-> Append(acc.triggers,
                                      IF tools # <<>> THEN "Remote Control Software"
                                                      ELSE "Remote Access Detected")]
        ELSE acc

ScreenBlock(d, acc) ==
    LET screen_res == Get(d, "screen_data", EmptyDict)
    IN  IF Get(screen_res, "screen_sharing_risk", FALSE)
        THEN LET details == Get(screen_res, "details", <<>>)
             IN  [score    |-> FAdd(acc.score, ScreenTerm),
                  triggers |-> Append(acc.triggers,
                                      IF \E i \in 1..Len(details) : IsDisplayDetail(details[i])
                                      THEN "Multi-Monitor Setup Detected"
                                      ELSE "Screen Sharing / Casting Detected")]
        ELSE acc

BehaviorBlock_unflagged(d, acc) ==
    LET beh_res == Get(d, "behavior_data", EmptyDict)
    IN  IF "anomaly_score" \in DOMAIN beh_res
        THEN [score    |-> FAdd(acc.score, AnomalyTerm[beh_res.anomaly_score]),
              triggers |-> Append(acc.triggers, "Behavioral Anomaly")]
        ELSE acc

BehaviorBlock(d, acc) ==
    LET beh_res == Get(d, "behavior_data", EmptyDict)
    IN  IF Get(beh_res, "behavior_anomaly", FALSE)
        THEN LET anom_score == Get(beh_res, "anomaly_score", 0)
             IN  [score    |-> FAdd(acc.score, AnomalyTerm[anom_score]),
                  triggers |-> Append(acc.triggers, "Behavioral Anomaly")]
        ELSE acc

NetworkBlock(d, acc) ==
    LET net_res == Get(d, "network_data", EmptyDict)
    IN  IF Get(net_res, "network_suspicious", FALSE)
        THEN LET net_risk == Get(net_res, "risk_score", 0)
                 findings == Get(net_res, "findings", <<>>)
             IN  [score    |-> FAdd(acc.score, IdsTerm[net_risk]),
                  triggers |-> Append(acc.triggers,
                                      IF findings # <<>> THEN "Network Anomaly"
                                                         ELSE "Suspicious Network Activity")]
        ELSE acc

ProcessBlock_scaled(d, acc) ==
    LET proc_res == Get(d, "process_data", EmptyDict)
    IN  IF Get(proc_res, "process_suspicious", FALSE)
        THEN [score    |-> FAdd(acc.score, IdsTerm[Get(proc_res, "risk_score", 0)]),
              triggers |-> Append(acc.triggers, "Malicious Process Signatures Found")]
        ELSE acc

ProcessBlock(d, acc) ==
    LET proc_res == Get(d, "process_data", EmptyDict)
    IN  IF Get(proc_res, "process_suspicious", FALSE)
        THEN [score    |-> FAdd(acc.score, ProcessTerm),
              triggers |-> Append(acc.triggers, "Malicious Process Signatures Found")]
        ELSE acc

Fused_reordered(d) ==
    ProcessBlock(d, BehaviorBlock(d, NetworkBlock(d,
        ScreenBlock(d, RemoteBlock(d, VmBlock(d, [score |-> FZero, triggers |-> <<>>]))))))

\* the six numbered blocks of analyze, in order
Fused(d) ==
    ProcessBlock(d, NetworkBlock(d, BehaviorBlock(d,
        ScreenBlock(d, RemoteBlock(d, VmBlock(d, [score |-> FZero, triggers |-> <<>>]))))))

\* the returned dict; risk_score is in hundredths (round(total_risk, 2) * 100)
Verdict(total_risk, triggers, cls) ==
    [risk_score |-> Round2(total_risk),
     risk_level |-> cls.level,
     triggers   |-> triggers,
     actions    |-> cls.actions]

\* the level is decided on total_risk itself, the score reported is rounded
Decide(total_risk, triggers) == Verdict(total_risk, triggers, Classify(total_risk))

\* total_risk = min(score, 100)
Finish(acc) == Decide(CapScore(acc.score), acc.triggers)

\* analyze(data)
Analyze(d) == Finish(Fused(d))


(***************************************************************************)
(* Server: DecisionFusionEngine.analyze called on a telemetry map, either  *)
(* directly or through POST /api/v1/telemetry/{session_id}.                *)
(***************************************************************************)
NScores == 3

FirstN(seq, n) == {seq[i] : i \in 1..Min(n, Len(seq))}

VmSeq       == <<60, 95, 100, 35>>
RemoteSeq   == <<80, 100, 35, 60>>
BehaviorSeq == <<45, 60, 42, 100>>
NetworkSeq  == <<40, 60, 100, 35>>

Absent == [absent |-> TRUE]

\* a score no detector produces but a posted result may carry
NegativeScore == -10

VmResults ==
    {[is_vm |-> TRUE, confidence |-> s, indicators |-> <<"VM Processes">>] :
        s \in FirstN(VmSeq, NScores)}
    \cup {[is_vm |-> FALSE, confidence |-> 30, indicators |-> <<"VM Processes">>]}

RemoteResults ==
    {[remote_detected |-> TRUE, risk_score |-> s, findings |-> <<"Remote Tools Running">>] :
        s \in FirstN(RemoteSeq, NScores)}
    \cup {[remote_detected |-> FALSE, risk_score |-> 20, findings |-> <<"Suspicious Connections">>],
          [remote_detected |-> TRUE, risk_score |-> NegativeScore, findings |-> <<"Suspicious Connections">>]}

ScreenResults ==
    {[screen_sharing_risk |-> TRUE, risk_level |-> 40, details |-> <<"Sharing Tools">>],
     [screen_sharing_risk |-> TRUE, risk_level |-> 65, details |-> <<"displays detected", "Sharing Tools">>],
     [screen_sharing_risk |-> FALSE, risk_level |-> 25, details |-> <<"displays detected">>]}

BehaviorResults ==
    {[behavior_anomaly |-> TRUE, anomaly_score |-> s, sufficient_data |-> TRUE] :
        s \in FirstN(BehaviorSeq, NScores)}
    \cup {[behavior_anomaly |-> TRUE, anomaly_score |-> BehaviorSeq[2], sufficient_data |-> FALSE],
          [behavior_anomaly |-> FALSE, anomaly_score |-> 40, sufficient_data |-> TRUE]}

NetworkResults ==
    {[network_suspicious |-> TRUE, risk_score |-> s, findings |-> <<"Listening on port">>] :
        s \in FirstN(NetworkSeq, NScores)}
    \cup {[network_suspicious |-> FALSE, risk_score |-> 30, findings |-> <<"Multiple connections">>]}

ProcessResults ==
    {[process_suspicious |-> TRUE, risk_score |-> 40, findings |-> <<"Suspicious process">>],
     [process_suspicious |-> TRUE, risk_score |-> 70, findings |-> <<"Suspicious process", "threads">>],
     [process_suspicious |-> FALSE, risk_score |-> 30, findings |-> <<"threads">>]}

IntegrityResults ==
    {[integrity_compromised |-> TRUE, risk_score |-> 50, findings |-> <<"Many startup items", "Driver", "High number of running services">>]}

\* the six required fields of schemas.TelemetryData
SchemaKeys ==
    {"vm_data", "remote_data", "screen_data", "behavior_data", "network_data", "process_data"}

\* a choice for every key: a detector result, or Absent
Choices ==
    [vm_data        : VmResults \cup {Absent},
     remote_data    : RemoteResults \cup {Absent},
     screen_data    : ScreenResults \cup {Absent},
     behavior_data  : BehaviorResults \cup {Absent},
     network_data   : NetworkResults \cup {Absent},
     process_data   : ProcessResults \cup {Absent},
     integrity_data : IntegrityResults \cup {Absent}]

\* the dict holding exactly the chosen keys
MkMap(c) == [k \in {x \in DOMAIN c : c[x] # Absent} |-> c[k]]

\* the dict a POST body parses to: a missing schema field is a validation
\* error, {} is a valid field value, unknown fields are dropped
Posted(c) == [k \in SchemaKeys |-> IF c[k] = Absent THEN EmptyDict ELSE c[k]]

\* no OS query answered yet
NoFacts == [name |-> "none"]

\* NetworkAnalyzer.__init__: the two deques start empty; the other detectors
\* keep only constant tables
NewInstance == [connection_history |-> <<>>, bandwidth_samples |-> <<>>]

\* no request to the server in flight
NoRequest == [cycle |-> 0]

NoVerdict == [risk_score |-> 0, risk_level |-> "NONE", triggers |-> <<>>, actions |-> <<>>]

\* BehaviorMonitor.__init__: four empty deques, no listener, nothing seen yet
\* (0 stands for None: time.time() is positive)
NewMonitor ==
    [mouse_events |-> <<>>, keyboard_events |-> <<>>,
     mouse_speeds |-> <<>>, key_intervals |-> <<>>,
     monitoring |-> FALSE, last_mouse_time |-> 0, last_key_time |-> 0,
     listener_mouse |-> "none", listener_keyboard |-> "none"]

\* detect() before it is called: its position, what each read of a buffer
\* saw, and its locals
NoFrame ==
    [pc |-> "unloaded",
     speeds_len |-> 0, speeds |-> <<>>, events_len |-> 0, events |-> <<>>,
     intervals_len |-> 0, intervals |-> <<>>,
     mouse_analysis |-> EmptyDict, keyboard_analysis |-> EmptyDict,
     results |-> EmptyDict]

\* nothing analysed yet
NoAnalysis == [known |-> FALSE, contents |-> <<>>, rules |-> <<>>]

\* the process around the monitor: whether pynput could be imported, the
\* recording callbacks delivered, the listener pairs started, the sleeps
\* taken, everything ever appended to each buffer, the detect() calls made,
\* the callbacks delivered when the call before this one began and when it
\* stopped observing, what that call returned, and the contents each analysis
\* last computed its statistics on with the rules that held on them
NoWorld ==
    [pynput |-> "unknown", events |-> 0, started |-> 0, slept |-> 0,
     arrived |-> [mouse_events |-> <<>>, keyboard_events |-> <<>>,
                  mouse_speeds |-> <<>>, key_intervals |-> <<>>],
     detects |-> 0, called_at |-> 0, stopped_at |-> 0,
     last |-> [called_at |-> 0, stopped_at |-> 0, mouse_analysis |-> EmptyDict,
               keyboard_analysis |-> EmptyDict, results |-> EmptyDict],
     judged |-> [mouse |-> NoAnalysis, keyboard |-> NoAnalysis]]

\* main has not called send_telemetry yet: `cycle` is the cycle of the last
\* call, `answered` whether it returned the server's answer (None
\* otherwise), `printed` what main printed about it
NoResponse == [cycle |-> 0, answered |-> FALSE, risk_level |-> "NONE", printed |-> <<>>]

Init ==
    /\ data = EmptyDict
    /\ verdict = NoVerdict
    /\ status = "idle"
    /\ detector = "none"
    /\ result = EmptyDict
    /\ facts = NoFacts
    /\ instance = NewInstance
    /\ previous = EmptyDict
    /\ calls = 0
    /\ pc = "idle"
    /\ snapshot = EmptyDict
    /\ cycle = 0
    /\ posted = NoRequest
    /\ response = NoResponse
    /\ monitor = NewMonitor
    /\ frame = NoFrame
    /\ world = NoWorld

\* the maps a caller of analyze can pass, and the bodies a client can post
\* (unknown fields such as integrity_data are dropped by the schema)
CallChoices == Choices

PostChoices == {c \in Choices : c.integrity_data = Absent}

\* fusion_engine.analyze(d) called on an arbitrary map
AnalyzeCall ==
    /\ status = "idle"
    /\ \E c \in CallChoices :
        /\ data' = MkMap(c)
        /\ verdict' = Analyze(MkMap(c))
    /\ status' = "analyzed"
    /\ UNCHANGED exceptServer

\* ingest_telemetry with a body that validates against TelemetryData
IngestTelemetry ==
    /\ status = "idle"
    /\ \E c \in PostChoices :
        /\ data' = Posted(c)
        /\ verdict' = Analyze(Posted(c))
    /\ status' = "processed"
    /\ UNCHANGED exceptServer

\* ingest_telemetry with a body missing a required field: 422, no analysis
RejectTelemetry ==
    /\ status = "idle"
    /\ \E c \in PostChoices : ~(SchemaKeys \subseteq DOMAIN MkMap(c))
    /\ status' = "rejected"
    /\ UNCHANGED <<data, verdict, exceptServer>>

\* the caller has its answer; the engine keeps nothing between calls
Return ==
    /\ status \in {"analyzed", "processed", "rejected"}
    /\ data' = EmptyDict
    /\ verdict' = NoVerdict
    /\ status' = "idle"
    /\ UNCHANGED exceptServer

Next ==
    \/ AnalyzeCall
    \/ IngestTelemetry
    \/ RejectTelemetry
    \/ Return

Spec == Init /\ [][Next]_vars


(***************************************************************************)
(* Properties of analyze.  Scores are in hundredths.                       *)
(***************************************************************************)
Analyzed == status \in {"analyzed", "processed"}

On(d, k, flag) == k \in DOMAIN d /\ Get(d[k], flag, FALSE)

VmOn(d)       == On(d, "vm_data", "is_vm")
RemoteOn(d)   == On(d, "remote_data", "remote_detected")
ScreenOn(d)   == On(d, "screen_data", "screen_sharing_risk")
BehaviorOn(d) == On(d, "behavior_data", "behavior_anomaly")
NetworkOn(d)  == On(d, "network_data", "network_suspicious")
ProcessOn(d)  == On(d, "process_data", "process_suspicious")
IntegrityOn(d) == On(d, "integrity_data", "integrity_compromised")

Without(d, keys) == [k \in DOMAIN d \ keys |-> d[k]]

\* the weighted sum in exact arithmetic, for weights given in hundredths
WeightedSum(d, wscreen, wbehavior, wnetwork) ==
    Min(10000,
        Cond(VmOn(d), 35 * d.vm_data.confidence)
        + Cond(RemoteOn(d), 40 * d.remote_data.risk_score)
        + Cond(ScreenOn(d), wscreen * 100)
        + Cond(BehaviorOn(d), wbehavior * d.behavior_data.anomaly_score)
        + Cond(NetworkOn(d), wnetwork * d.network_data.risk_score)
        + Cond(ProcessOn(d), 1500))

LevelAt(h) ==
    IF h >= 7500 THEN "CRITICAL"
    ELSE IF h >= 5000 THEN "HIGH"
    ELSE IF h >= 2500 THEN "MEDIUM"
    ELSE "LOW"

LevelRank(l) ==
    IF l = "CRITICAL" THEN 3 ELSE IF l = "HIGH" THEN 2 ELSE IF l = "MEDIUM" THEN 1 ELSE 0

ActionsAt(l) ==
    IF l = "CRITICAL" THEN <<"TERMINATE_SESSION", "FLAG_ADMIN", "CAPTURE_EVIDENCE">>
    ELSE IF l = "HIGH" THEN <<"WARN_USER", "ENABLE_STRICT_LOGGING", "DISABLE_CLIPBOARD">>
    ELSE IF l = "MEDIUM" THEN <<"LOG_EVENT", "INCREASE_SAMPLING_RATE">>
    ELSE <<"CONTINUE_MONITORING">>

\* C2 as stated: risk_score = min(100, 0.35 vm + 0.40 remote + 0.25*100 [screen]
\* + 0.20 behavior + 0.30 network + 15 [process]) over the triggered domains
C2_Original ==
    Analyzed => verdict.risk_score = WeightedSum(data, 25, 20, 30)

\* C2 amended: the same sum with the weights analyze uses: 0.20*100 for a
\* triggered screen result, 0.15 for behavior, 0.25 for network
C2_FusedScoreFormula ==
    Analyzed => verdict.risk_score = WeightedSum(data, 20, 15, 25)

\* behavior, network and screen all contribute and the cap is not reached
C2_Witness ==
    /\ Analyzed
    /\ BehaviorOn(data) /\ NetworkOn(data) /\ ScreenOn(data) /\ VmOn(data)
    /\ verdict.risk_score < 10000
    /\ verdict.risk_score > 5000

OnlyScreenOn(d) ==
    /\ ScreenOn(d)
    /\ ~VmOn(d) /\ ~RemoteOn(d) /\ ~BehaviorOn(d) /\ ~NetworkOn(d) /\ ~ProcessOn(d)

\* C3 as stated: a triggered screen result alone gives 25 and MEDIUM with
\* LOG_EVENT, INCREASE_SAMPLING_RATE
C3_Original ==
    (Analyzed /\ OnlyScreenOn(data)) =>
        /\ verdict.risk_score = 2500
        /\ verdict.risk_level = "MEDIUM"
        /\ verdict.actions = <<"LOG_EVENT", "INCREASE_SAMPLING_RATE">>

\* C3 amended: a triggered screen result alone gives 0.20*100 = 20 and LOW with
\* CONTINUE_MONITORING, whatever risk_level score the screen result carries
C3_ScreenAlone ==
    (Analyzed /\ OnlyScreenOn(data)) =>
        /\ verdict.risk_score = 2000
        /\ verdict.risk_level = "LOW"
        /\ verdict.actions = <<"CONTINUE_MONITORING">>
        /\ Len(verdict.triggers) = 1

\* a screen result carrying 65 is the only triggered one, next to an
\* untriggered network result
C3_Witness ==
    /\ Analyzed
    /\ OnlyScreenOn(data)
    /\ data.screen_data.risk_level = 65
    /\ "network_data" \in DOMAIN data
    /\ verdict.risk_score = 2000

OnlyVmRemoteOn(d) ==
    /\ VmOn(d) /\ RemoteOn(d)
    /\ ~ScreenOn(d) /\ ~BehaviorOn(d) /\ ~NetworkOn(d) /\ ~ProcessOn(d)

\* C4: Virtualization (triggered, 60) with RemoteAccess (triggered, 80) alone
\* gives 53, HIGH and WARN_USER, ENABLE_STRICT_LOGGING, DISABLE_CLIPBOARD; with
\* only VM and Remote triggered the score is 0.35 vm + 0.40 remote
C4_VmRemoteExample ==
    (Analyzed /\ OnlyVmRemoteOn(data)) =>
        /\ verdict.risk_score = 35 * data.vm_data.confidence + 40 * data.remote_data.risk_score
        /\ (data.vm_data.confidence = 60 /\ data.remote_data.risk_score = 80) =>
                /\ verdict.risk_score = 5300
                /\ verdict.risk_level = "HIGH"
                /\ verdict.actions = <<"WARN_USER", "ENABLE_STRICT_LOGGING", "DISABLE_CLIPBOARD">>

C4_Witness ==
    /\ status = "analyzed"
    /\ DOMAIN data = {"vm_data", "remote_data"}
    /\ OnlyVmRemoteOn(data)
    /\ data.vm_data.confidence = 60
    /\ data.remote_data.risk_score = 80
    /\ verdict.risk_level = "HIGH"

\* C5: the level of every verdict is the level the breakpoints 75 / 50 / 25
\* (inclusive lower bounds) assign to the risk_score of the same verdict
C5_LevelMatchesScore ==
    Analyzed => verdict.risk_level = LevelAt(verdict.risk_score)

\* C6: the actions of every verdict are the fixed list of its risk_level
C6_ActionsFromLevel ==
    Analyzed => verdict.actions = ActionsAt(verdict.risk_level)

C6_Witness ==
    /\ Analyzed
    /\ verdict.risk_level = "HIGH"
    /\ verdict.actions = <<"WARN_USER", "ENABLE_STRICT_LOGGING", "DISABLE_CLIPBOARD">>
    /\ ~VmOn(data)

OnKeys(d) ==
    {k \in SchemaKeys :
        \/ k = "vm_data" /\ VmOn(d)
        \/ k = "remote_data" /\ RemoteOn(d)
        \/ k = "screen_data" /\ ScreenOn(d)
        \/ k = "behavior_data" /\ BehaviorOn(d)
        \/ k = "network_data" /\ NetworkOn(d)
        \/ k = "process_data" /\ ProcessOn(d)}

\* C7: analyze returns a well-formed verdict for every subset of the domain
\* keys; a missing or untriggered domain contributes nothing and adds no
\* trigger, and the empty map gives 0, LOW and no triggers
C7_TotalOverPartialInput ==
    status = "analyzed" =>
        /\ verdict.risk_level \in {"LOW", "MEDIUM", "HIGH", "CRITICAL"}
        /\ verdict.risk_score \in Int
        /\ verdict.actions # <<>>
        /\ Len(verdict.triggers) = Cardinality(OnKeys(data))
        /\ verdict.risk_score = Analyze(Without(data, DOMAIN data \ OnKeys(data))).risk_score
        /\ OnKeys(data) = {} =>
                /\ verdict.risk_score = 0
                /\ verdict.risk_level = "LOW"
                /\ verdict.triggers = <<>>

\* a partial map: three keys missing, an untriggered behavior result with a
\* non-zero score, one triggered domain
C7_Witness ==
    /\ status = "analyzed"
    /\ DOMAIN data = {"behavior_data", "network_data"}
    /\ ~BehaviorOn(data)
    /\ data.behavior_data.anomaly_score > 0
    /\ NetworkOn(data)
    /\ Len(verdict.triggers) = 1

\* the input with the score of one domain replaced
WithScore(d, k, field, s) ==
    [x \in DOMAIN d |-> IF x = k THEN [f \in DOMAIN d[k] |-> IF f = field THEN s ELSE d[k][f]]
                                 ELSE d[x]]

NotLower(v, w) ==
    /\ w.risk_score >= v.risk_score
    /\ LevelRank(w.risk_level) >= LevelRank(v.risk_level)

\* C8: raising the score of one triggered domain, everything else unchanged,
\* never lowers the risk_score nor the risk_level
C8_Monotone ==
    Analyzed =>
        /\ VmOn(data) =>
             \A s \in FirstN(VmSeq, NScores) :
                s > data.vm_data.confidence =>
                    NotLower(verdict, Analyze(WithScore(data, "vm_data", "confidence", s)))
        /\ RemoteOn(data) =>
             \A s \in FirstN(RemoteSeq, NScores) :
                s > data.remote_data.risk_score =>
                    NotLower(verdict, Analyze(WithScore(data, "remote_data", "risk_score", s)))
        /\ BehaviorOn(data) =>
             \A s \in FirstN(BehaviorSeq, NScores) :
                s > data.behavior_data.anomaly_score =>
                    NotLower(verdict, Analyze(WithScore(data, "behavior_data", "anomaly_score", s)))
        /\ NetworkOn(data) =>
             \A s \in FirstN(NetworkSeq, NScores) :
                s > data.network_data.risk_score =>
                    NotLower(verdict, Analyze(WithScore(data, "network_data", "risk_score", s)))

\* a remote score that can still be raised, below the cap
C8_Witness ==
    /\ Analyzed
    /\ RemoteOn(data)
    /\ data.remote_data.risk_score = 80
    /\ VmOn(data)
    /\ verdict.risk_score < 10000

\* C9: a behavioural result with sufficient_data = false contributes 0 and
\* adds no Behavior trigger, whatever score or flag it carries
C9_InsufficientDataContributesNothing ==
    (/\ Analyzed
     /\ "behavior_data" \in DOMAIN data
     /\ ~Get(data.behavior_data, "sufficient_data", TRUE)) =>
        /\ verdict.risk_score = Analyze(Without(data, {"behavior_data"})).risk_score
        /\ \A i \in 1..Len(verdict.triggers) : verdict.triggers[i] # "Behavioral Anomaly"

\* C10 as stated: a triggered SystemIntegrity result adds the flat 15 points
C10_Original ==
    (Analyzed /\ IntegrityOn(data)) =>
        verdict.risk_score
            = Min(10000, Analyze(Without(data, {"integrity_data"})).risk_score + 1500)

\* C10 amended: a triggered ProcessForensics result adds a flat 15 points
\* whatever its own score, an untriggered one adds nothing, and a
\* SystemIntegrity result is not read by analyze and adds nothing
C10_FlatProcessPenalty ==
    Analyzed =>
        LET base == Analyze(Without(data, {"process_data", "integrity_data"})).risk_score
        IN  verdict.risk_score = Min(10000, base + Cond(ProcessOn(data), 1500))

C10_Witness ==
    /\ Analyzed
    /\ ProcessOn(data)
    /\ data.process_data.risk_score = 70
    /\ IntegrityOn(data)
    /\ NetworkOn(data)
    /\ verdict.risk_score < 10000

\* the domains in the order analyze evaluates them
DomainOrder ==
    <<"vm_data", "remote_data", "screen_data", "behavior_data", "network_data", "process_data">>

\* the domain whose block appends the trigger
DomainOfTrigger(t) ==
    IF t = "Virtual Machine Detected" THEN "vm_data"
    ELSE IF t \in {"Remote Control Software", "Remote Access Detected"} THEN "remote_data"
    ELSE IF t \in {"Multi-Monitor Setup Detected", "Screen Sharing / Casting Detected"}
    THEN "screen_data"
    ELSE IF t = "Behavioral Anomaly" THEN "behavior_data"
    ELSE IF t \in {"Network Anomaly", "Suspicious Network Activity"} THEN "network_data"
    ELSE IF t = "Malicious Process Signatures Found" THEN "process_data"
    ELSE "none"

\* C11: the triggers of every verdict are one entry per present and triggered
\* domain and none for any other domain, in the order Virtualization,
\* RemoteAccess, ScreenSharing, BehavioralAnomaly, Network, ProcessForensics
C11_TriggersInDomainOrder ==
    Analyzed =>
        [i \in 1..Len(verdict.triggers) |-> DomainOfTrigger(verdict.triggers[i])]
            = SelectSeq(DomainOrder, LAMBDA k : k \in OnKeys(data))

\* four domains triggered, the first domain absent and another present but
\* untriggered
C11_Witness ==
    /\ Analyzed
    /\ "vm_data" \notin DOMAIN data
    /\ "screen_data" \in DOMAIN data
    /\ ~ScreenOn(data)
    /\ verdict.triggers = <<"Remote Control Software", "Behavioral Anomaly",
                            "Network Anomaly", "Malicious Process Signatures Found">>

\* C12: the risk_score of every verdict is in 0..100, whatever scores the
\* domain results of the input carry
C12_RiskScoreInRange ==
    Analyzed => 0 <= verdict.risk_score /\ verdict.risk_score <= 10000

(***************************************************************************)
(* Agent: the detectors.  Each detect()/analyze() is a function of the     *)
(* outcomes of its sub-checks; findings are kept by their fixed prefix.    *)
(***************************************************************************)
\* VMDetector.detect
VMDetect(proc_detected, vendor_detected, mac_detected, reg_detected, cpu_detected) ==
    LET confidence == Cond(proc_detected, 30) + Cond(vendor_detected, 35)
                      + Cond(mac_detected, 20) + Cond(reg_detected, 10)
                      + Cond(cpu_detected, 5)
    IN  [is_vm      |-> confidence > 30,
         confidence |-> Min(confidence, 100),
         indicators |-> Finding(proc_detected, "VM Processes")
                        \o Finding(vendor_detected, "VM Vendor")
                        \o Finding(mac_detected, "VM MAC Addresses")
                        \o Finding(reg_detected, "VM Registry Keys Found")
                        \o Finding(cpu_detected, "Virtual CPU detected")]

\* RemoteAccessDetector.detect
RemoteDetect(proc_detected, rdp_detected, net_detected, reg_detected) ==
    LET risk_score == Cond(proc_detected, 40) + Cond(rdp_detected, 35)
                      + Cond(net_detected, 20) + Cond(reg_detected, 5)
    IN  [remote_detected |-> risk_score > 30,
         risk_score      |-> Min(risk_score, 100),
         findings        |-> Finding(proc_detected, "Remote Tools Running")
                             \o Finding(rdp_detected, "RDP session detected")
                             \o Finding(net_detected, "Suspicious Connections")
                             \o Finding(reg_detected, "Remote Tools Installed")]

\* ScreenSharingDetector.detect
ScreenDetect(display_count, sharing_detected) ==
    LET risk_level == Cond(display_count > 1, 25) + Cond(sharing_detected, 40)
    IN  [screen_sharing_risk |-> risk_level > 30,
         risk_level          |-> risk_level,
         details             |-> Finding(display_count > 1, "displays detected")
                                 \o Finding(sharing_detected, "Sharing Tools")]

\* NetworkAnalyzer.analyze_connection_patterns, from the counts it derives:
\* remote addresses with more than 5 connections, connections to remote
\* ports above 10000, connections to private-network peers
AnalyzeConnectionPatterns(offending_ips, high_port_connections, private_connections) ==
    LET anomaly_score == 15 * offending_ips
                         + Cond(high_port_connections > 10, 10)
                         + Cond(private_connections > 3, 20)
    IN  [anomaly_score |-> Min(anomaly_score, 100),
         indicators    |-> [i \in 1..offending_ips |-> "Multiple connections"]
                           \o Finding(high_port_connections > 10, "High activity on non-standard ports")
                           \o Finding(private_connections > 3, "Multiple local network connections")]

\* NetworkAnalyzer.measure_bandwidth, from the measured rates in KB/s
MeasureBandwidth(send_rate, recv_rate) ==
    LET total_rate    == send_rate + recv_rate
        anomaly_score == Cond(send_rate > 500, 25) + Cond(recv_rate > 1000, 15)
                         + Cond(total_rate > 1500, 20)
    IN  [anomaly_score |-> Min(anomaly_score, 100),
         indicators    |-> Finding(send_rate > 500, "High upload rate")
                           \o Finding(recv_rate > 1000, "High download rate")
                           \o Finding(total_rate > 1500, "High total bandwidth")]

NetworkDetect_noclamp(susp_count, pattern_analysis, measure_bandwidth, bandwidth_data) ==
    LET s1 == Cond(susp_count > 0, 35)
        s2 == s1 + Cond(pattern_analysis.indicators # <<>>, pattern_analysis.anomaly_score)
        s3 == s2 + Cond(measure_bandwidth /\ bandwidth_data.indicators # <<>>,
                        bandwidth_data.anomaly_score)
        f  == [i \in 1..susp_count |-> "Suspicious port"]
              \o pattern_analysis.indicators
              \o (IF measure_bandwidth THEN bandwidth_data.indicators ELSE <<>>)
    IN  [network_suspicious |-> s3 > 30,
         risk_score         |-> s3,
         findings           |-> IF f = <<>> THEN <<"No suspicious network activity detected">> ELSE f]

\* NetworkAnalyzer.detect(measure_bandwidth)
NetworkDetect(susp_count, pattern_analysis, measure_bandwidth, bandwidth_data) ==
    LET s1 == Cond(susp_count > 0, 35)
        s2 == s1 + Cond(pattern_analysis.indicators # <<>>, pattern_analysis.anomaly_score)
        s3 == s2 + Cond(measure_bandwidth /\ bandwidth_data.indicators # <<>>,
                        bandwidth_data.anomaly_score)
        risk_score == Min(s3, 100)
        f  == [i \in 1..susp_count |-> "Suspicious port"]
              \o pattern_analysis.indicators
              \o (IF measure_bandwidth THEN bandwidth_data.indicators ELSE <<>>)
    IN  [network_suspicious |-> risk_score > 30,
         risk_score         |-> risk_score,
         findings           |-> IF f = <<>> THEN <<"No suspicious network activity detected">> ELSE f]

\* ProcessAnalyzer.check_hidden_processes, had it reported a process
CheckHiddenProcesses_reports == [detected |-> TRUE, hidden |-> <<"Hidden process">>]

\* ProcessAnalyzer.check_hidden_processes: nothing is ever appended to hidden
CheckHiddenProcesses == [detected |-> FALSE, hidden |-> <<>>]

\* ProcessAnalyzer.analyze
ProcessAnalyze(susp_count, inject_detected) ==
    LET hidden     == CheckHiddenProcesses
        risk_score == Min(Cond(susp_count > 0, 40) + Cond(hidden.detected, 20)
                          + Cond(inject_detected, 30), 100)
        f == [i \in 1..susp_count |-> "Suspicious process"]
             \o hidden.hidden
             \o Finding(inject_detected, "threads")
    IN  [process_suspicious |-> risk_score > 30,
         risk_score         |-> risk_score,
         findings           |-> IF f = <<>> THEN <<"No suspicious processes detected">> ELSE f]

\* SystemIntegrityChecker.analyze
IntegrityAnalyze(startup_detected, driver_detected, service_detected) ==
    LET risk_score == Min(Cond(startup_detected, 15) + Cond(driver_detected, 25)
                          + Cond(service_detected, 10), 100)
        f == Finding(startup_detected, "Many startup items")
             \o Finding(driver_detected, "Driver")
             \o Finding(service_detected, "High number of running services")
    IN  [integrity_compromised |-> risk_score > 30,
         risk_score            |-> risk_score,
         findings              |-> IF f = <<>> THEN <<"System integrity appears normal">> ELSE f]


\* BehaviorMonitor.analyze_mouse_behavior, from whether 10 speed samples
\* exist and which of its four rules hold on the buffered samples
AnalyzeMouseBehavior(enough, consistent, fast, straight, jitter) ==
    IF ~enough
    THEN [sufficient_data |-> FALSE, anomaly_score |-> 0,
          indicators |-> <<"Insufficient mouse data">>]
    ELSE LET anomaly_score == Cond(consistent, 25) + Cond(fast, 20)
                              + Cond(straight, 15) + Cond(jitter, 20)
             ind == Finding(consistent, "Mouse speed too consistent")
                    \o Finding(fast, "Unusually high mouse speed")
                    \o Finding(straight, "Too many straight mouse movements")
                    \o Finding(jitter, "High mouse jitter detected")
         IN  [sufficient_data |-> TRUE, anomaly_score |-> Min(anomaly_score, 100),
              indicators |-> IF ind # <<>> THEN ind ELSE <<"Normal mouse behavior">>]

\* BehaviorMonitor.analyze_keyboard_behavior, likewise for 10 key intervals
AnalyzeKeyboardBehavior(enough, robotic, fast, latency, burst) ==
    IF ~enough
    THEN [sufficient_data |-> FALSE, anomaly_score |-> 0,
          indicators |-> <<"Insufficient keyboard data">>]
    ELSE LET anomaly_score == Cond(robotic, 30) + Cond(fast, 25)
                              + Cond(latency, 20) + Cond(burst, 15)
             ind == Finding(robotic, "Typing intervals too consistent")
                    \o Finding(fast, "Suspiciously fast typing")
                    \o Finding(latency, "High typing latency detected")
                    \o Finding(burst, "Multiple typing bursts detected")
         IN  [sufficient_data |-> TRUE, anomaly_score |-> Min(anomaly_score, 100),
              indicators |-> IF ind # <<>> THEN ind ELSE <<"Normal keyboard behavior">>]

\* BehaviorMonitor.detect, had it added the sub-scores without halving them
BehaviorDetect_whole_scores(pynput_available, mouse_analysis, keyboard_analysis) ==
    LET whole == Cond(mouse_analysis.sufficient_data, mouse_analysis.anomaly_score)
                 + Cond(keyboard_analysis.sufficient_data, keyboard_analysis.anomaly_score)
    IN  [behavior_anomaly |-> Min(whole, 100) > 40,
         anomaly_score |-> Min(whole, 100),
         findings |-> mouse_analysis.indicators \o keyboard_analysis.indicators,
         monitoring_available |-> pynput_available]

\* BehaviorMonitor.detect; x * 0.5 and the sum are exact in binary64, and
\* int() truncates, so the aggregate is the integer half of the sum
BehaviorDetect(pynput_available, mouse_analysis, keyboard_analysis) ==
    IF ~pynput_available
    THEN [behavior_anomaly |-> FALSE, anomaly_score |-> 0,
          findings |-> <<"pynput not available">>, monitoring_available |-> FALSE]
    ELSE LET twice == Cond(mouse_analysis.sufficient_data, mouse_analysis.anomaly_score)
                      + Cond(keyboard_analysis.sufficient_data, keyboard_analysis.anomaly_score)
             anomaly_score == Min(twice \div 2, 100)
             f == (IF mouse_analysis.sufficient_data THEN mouse_analysis.indicators ELSE <<>>)
                  \o (IF keyboard_analysis.sufficient_data THEN keyboard_analysis.indicators ELSE <<>>)
         IN  [behavior_anomaly |-> anomaly_score > 40,
              anomaly_score |-> anomaly_score,
              findings |-> IF f = <<>> THEN <<"No significant behavioral anomalies detected">> ELSE f,
              monitoring_available |-> TRUE]

(***************************************************************************)
(* One detector call at a time; the caller takes the returned dict.        *)
(***************************************************************************)
MaxDisplays == 2
MaxSuspicious == 2
MaxOffendingIps == 7

\* sampled transfer rates in KB/s, on both sides of 500, 1000 and 1500
Rates == {0, 600, 1100, 1600}

Returned(name, r) ==
    /\ detector = "none"
    /\ detector' = name
    /\ result' = r
    /\ UNCHANGED exceptDetect

CallVMDetect ==
    \E p, v, m, r, c \in BOOLEAN : Returned("vm", VMDetect(p, v, m, r, c))

CallRemoteDetect ==
    \E p, s, n, r \in BOOLEAN : Returned("remote", RemoteDetect(p, s, n, r))

CallScreenDetect ==
    \E n \in 1..MaxDisplays, s \in BOOLEAN : Returned("screen", ScreenDetect(n, s))

CallNetworkDetect ==
    \E susp \in 0..MaxSuspicious, ips \in 0..MaxOffendingIps,
       hp \in {10, 11}, pv \in {3, 4}, bw \in BOOLEAN, up \in Rates, down \in Rates :
        /\ (~bw => up = 0 /\ down = 0)
        /\ Returned("network",
                    NetworkDetect(susp, AnalyzeConnectionPatterns(ips, hp, pv),
                                  bw, MeasureBandwidth(up, down)))

CallProcessAnalyze ==
    \E susp \in 0..MaxSuspicious, inj \in BOOLEAN :
        Returned("process", ProcessAnalyze(susp, inj))

CallIntegrityAnalyze ==
    \E s, d, v \in BOOLEAN : Returned("integrity", IntegrityAnalyze(s, d, v))

CallBehaviorDetect ==
    \E av, me, m1, m2, m3, m4, ke, k1, k2, k3, k4 \in BOOLEAN :
        /\ (~me => ~m1 /\ ~m2 /\ ~m3 /\ ~m4)
        /\ (~ke => ~k1 /\ ~k2 /\ ~k3 /\ ~k4)
        /\ (~av => ~me /\ ~ke)
        /\ Returned("behavior",
                    BehaviorDetect(av, AnalyzeMouseBehavior(me, m1, m2, m3, m4),
                                   AnalyzeKeyboardBehavior(ke, k1, k2, k3, k4)))

\* the caller stores the dict; the detector is ready for its next call
Collect ==
    /\ detector # "none"
    /\ detector' = "none"
    /\ result' = EmptyDict
    /\ UNCHANGED exceptDetect

NextDetect ==
    \/ CallVMDetect
    \/ CallRemoteDetect
    \/ CallScreenDetect
    \/ CallNetworkDetect
    \/ CallProcessAnalyze
    \/ CallIntegrityAnalyze
    \/ CallBehaviorDetect
    \/ Collect

SpecDetect == Init /\ [][NextDetect]_vars

\* the returned score and flag, and the threshold the flag is documented with
ScoreOf(name, r) ==
    IF name = "vm" THEN r.confidence
    ELSE IF name = "behavior" THEN r.anomaly_score
    ELSE IF name = "screen" THEN r.risk_level
    ELSE r.risk_score

TriggeredOf(name, r) ==
    IF name = "vm" THEN r.is_vm
    ELSE IF name = "remote" THEN r.remote_detected
    ELSE IF name = "screen" THEN r.screen_sharing_risk
    ELSE IF name = "network" THEN r.network_suspicious
    ELSE IF name = "process" THEN r.process_suspicious
    ELSE IF name = "integrity" THEN r.integrity_compromised
    ELSE r.behavior_anomaly

ThresholdOf(name) == IF name = "behavior" THEN 40 ELSE 30

\* C1: every detector result has 0 <= score <= 100 and its triggered flag
\* equals (score > 30), or (score > 40) for the behavioural detector, on the
\* final clamped score
C1_ScoreBoundedFlagFromScore ==
    detector # "none" =>
        /\ 0 <= ScoreOf(detector, result)
        /\ ScoreOf(detector, result) <= 100
        /\ TriggeredOf(detector, result) = (ScoreOf(detector, result) > ThresholdOf(detector))

\* a network result whose sub-check points sum above 100 is clamped to 100
C1_Witness ==
    /\ detector = "network"
    /\ result.risk_score = 100
    /\ result.network_suspicious
    /\ Len(result.findings) >= 9

(***************************************************************************)
(* One detector instance called repeatedly, as the agent's loop does, on   *)
(* OS facts that do not change between the calls.                          *)
(***************************************************************************)
MaxCalls == 2

\* what the OS queries of each detector answer
VmFacts ==
    {[name |-> "vm", proc |-> p, vendor |-> v, mac |-> m, reg |-> r, cpu |-> c] :
        p \in BOOLEAN, v \in BOOLEAN, m \in BOOLEAN, r \in BOOLEAN, c \in BOOLEAN}

RemoteFacts ==
    {[name |-> "remote", proc |-> p, rdp |-> s, net |-> n, reg |-> r] :
        p \in BOOLEAN, s \in BOOLEAN, n \in BOOLEAN, r \in BOOLEAN}

ScreenFacts ==
    {[name |-> "screen", displays |-> n, sharing |-> s] : n \in 1..MaxDisplays, s \in BOOLEAN}

NetworkFacts ==
    {[name |-> "network", susp |-> n, ips |-> i, high_port |-> h, private |-> v] :
        n \in 0..MaxSuspicious, i \in 0..MaxOffendingIps, h \in {10, 11}, v \in {3, 4}}

ProcessFacts ==
    {[name |-> "process", susp |-> n, inject |-> i] : n \in 0..MaxSuspicious, i \in BOOLEAN}

IntegrityFacts ==
    {[name |-> "integrity", startup |-> s, driver |-> d, service |-> v] :
        s \in BOOLEAN, d \in BOOLEAN, v \in BOOLEAN}

AllFacts ==
    VmFacts \cup RemoteFacts \cup ScreenFacts \cup NetworkFacts \cup ProcessFacts
    \cup IntegrityFacts

\* the dict detect() / analyze() of the detector the facts belong to returns
DetectResult(f) ==
    IF f.name = "vm" THEN VMDetect(f.proc, f.vendor, f.mac, f.reg, f.cpu)
    ELSE IF f.name = "remote" THEN RemoteDetect(f.proc, f.rdp, f.net, f.reg)
    ELSE IF f.name = "screen" THEN ScreenDetect(f.displays, f.sharing)
    ELSE IF f.name = "network"
    THEN NetworkDetect(f.susp, AnalyzeConnectionPatterns(f.ips, f.high_port, f.private),
                       FALSE, MeasureBandwidth(0, 0))
    ELSE IF f.name = "process" THEN ProcessAnalyze(f.susp, f.inject)
    ELSE IntegrityAnalyze(f.startup, f.driver, f.service)

\* a call that appends to connection_history, and a network detect() that
\* counts the connections seen by earlier calls as well
DetectCall_history(f, inst) ==
    [result   |->
        IF f.name = "network"
        THEN NetworkDetect(f.susp + Len(inst.connection_history),
                           AnalyzeConnectionPatterns(f.ips, f.high_port, f.private),
                           FALSE, MeasureBandwidth(0, 0))
        ELSE DetectResult(f),
     instance |-> [inst EXCEPT !.connection_history = Append(@, f.name)]]

\* one call on an instance in state inst: the returned dict and the instance
\* state afterwards.  No detector writes an attribute of self;
\* connection_history and bandwidth_samples are created in __init__ and
\* never appended to.
DetectCall(f, inst) ==
    [result   |-> DetectResult(f),
     instance |-> inst]

\* the process list, connection list, registry and displays as they are
\* while the detector is called
SettleFacts ==
    /\ facts = NoFacts
    /\ facts' \in AllFacts
    /\ UNCHANGED <<instance, previous, calls, detectVars, exceptRepeat>>

\* one more call on the same instance
DetectAgain ==
    /\ facts # NoFacts
    /\ calls < MaxCalls
    /\ previous' = result
    /\ result' = DetectCall(facts, instance).result
    /\ instance' = DetectCall(facts, instance).instance
    /\ detector' = facts.name
    /\ calls' = calls + 1
    /\ UNCHANGED <<facts, exceptRepeat>>

\* the process ends; the next one builds new detector instances
Restart ==
    /\ calls = MaxCalls
    /\ facts' = NoFacts
    /\ instance' = NewInstance
    /\ previous' = EmptyDict
    /\ result' = EmptyDict
    /\ detector' = "none"
    /\ calls' = 0
    /\ UNCHANGED exceptRepeat

NextRepeat ==
    \/ SettleFacts
    \/ DetectAgain
    \/ Restart

SpecRepeat == Init /\ [][NextRepeat]_vars

MaxCycles == 2

Hit(x) == x = "hit"

\* an exception leaving detect()
Raised == [raised |-> TRUE]

AgentVmFacts ==
    {[name |-> "vm", proc |-> "clear", vendor |-> "clear", mac |-> "clear", reg |-> "clear", cpu |-> "clear"],
     [name |-> "vm", proc |-> "hit", vendor |-> "hit", mac |-> "clear", reg |-> "clear", cpu |-> "clear"],
     [name |-> "vm", proc |-> "error", vendor |-> "hit", mac |-> "hit", reg |-> "error", cpu |-> "clear"]}

AgentRemoteFacts ==
    {[name |-> "remote", proc |-> "clear", rdp |-> "clear", net |-> "clear", reg |-> "clear"],
     [name |-> "remote", proc |-> "hit", rdp |-> "clear", net |-> "hit", reg |-> "clear"],
     [name |-> "remote", proc |-> "error", rdp |-> "hit", net |-> "error", reg |-> "clear"]}

AgentScreenFacts ==
    {[name |-> "screen", displays |-> 1, sharing |-> "clear"],
     [name |-> "screen", displays |-> 1, sharing |-> "hit"],
     [name |-> "screen", displays |-> 2, sharing |-> "error"]}

\* listing is the first get_active_connections() of detect(), made by
\* check_suspicious_connections; relisting the second, made by
\* analyze_connection_patterns
AgentNetworkFacts ==
    {[name |-> "network", listing |-> "ok", relisting |-> "ok",
      susp |-> 0, ips |-> 0, high_port |-> 10, private |-> 3],
     [name |-> "network", listing |-> "ok", relisting |-> "ok",
      susp |-> 1, ips |-> 1, high_port |-> 11, private |-> 3],
     [name |-> "network", listing |-> "denied", relisting |-> "ok",
      susp |-> 1, ips |-> 0, high_port |-> 10, private |-> 4],
     [name |-> "network", listing |-> "ok", relisting |-> "error",
      susp |-> 1, ips |-> 1, high_port |-> 10, private |-> 3]}

AgentProcessFacts ==
    {[name |-> "process", susp |-> "clear", inject |-> "clear"],
     [name |-> "process", susp |-> "hit", inject |-> "clear"],
     [name |-> "process", susp |-> "error", inject |-> "hit"]}

AgentBehaviorFacts ==
    {[name |-> "behavior", available |-> FALSE, mouse |-> <<FALSE, FALSE, FALSE, FALSE, FALSE>>,
      keyboard |-> <<FALSE, FALSE, FALSE, FALSE, FALSE>>],
     [name |-> "behavior", available |-> TRUE, mouse |-> <<FALSE, FALSE, FALSE, FALSE, FALSE>>,
      keyboard |-> <<FALSE, FALSE, FALSE, FALSE, FALSE>>],
     [name |-> "behavior", available |-> TRUE, mouse |-> <<TRUE, TRUE, TRUE, TRUE, TRUE>>,
      keyboard |-> <<TRUE, TRUE, TRUE, FALSE, FALSE>>]}

\* get_active_connections(): AccessDenied and NoSuchProcess are caught and
\* give the empty list; anything else leaves the method
Listed(outcome, n) == IF outcome = "ok" THEN n ELSE 0

\* NetworkAnalyzer.detect(measure_bandwidth=False) on one answer per listing
AgentNetworkDetect(f) ==
    IF f.listing = "error" \/ f.relisting = "error" THEN Raised
    ELSE NetworkDetect(Listed(f.listing, f.susp),
                       AnalyzeConnectionPatterns(Listed(f.relisting, f.ips),
                                                 Listed(f.relisting, f.high_port),
                                                 Listed(f.relisting, f.private)),
                       FALSE, MeasureBandwidth(0, 0))

\* the call collect_snapshot makes on each detector; the sub-checks of the
\* VM, remote, screen and process detectors catch every exception
AgentCall(f) ==
    IF f.name = "vm"
    THEN VMDetect(Hit(f.proc), Hit(f.vendor), Hit(f.mac), Hit(f.reg), Hit(f.cpu))
    ELSE IF f.name = "remote"
    THEN RemoteDetect(Hit(f.proc), Hit(f.rdp), Hit(f.net), Hit(f.reg))
    ELSE IF f.name = "screen" THEN ScreenDetect(f.displays, Hit(f.sharing))
    ELSE IF f.name = "network" THEN AgentNetworkDetect(f)
    ELSE IF f.name = "process" THEN ProcessAnalyze(IF Hit(f.susp) THEN 1 ELSE 0, Hit(f.inject))
    ELSE BehaviorDetect(f.available,
                        AnalyzeMouseBehavior(f.mouse[1], f.mouse[2], f.mouse[3], f.mouse[4], f.mouse[5]),
                        AnalyzeKeyboardBehavior(f.keyboard[1], f.keyboard[2], f.keyboard[3],
                                                f.keyboard[4], f.keyboard[5]))

\* the payload key each detector's result is stored under
KeyOf(name) ==
    IF name = "vm" THEN "vm_data"
    ELSE IF name = "remote" THEN "remote_data"
    ELSE IF name = "screen" THEN "screen_data"
    ELSE IF name = "network" THEN "network_data"
    ELSE IF name = "process" THEN "process_data"
    ELSE "behavior_data"

CallOrder_early(name) ==
    IF name = "vm" THEN "remote"
    ELSE IF name = "remote" THEN "screen"
    ELSE IF name = "screen" THEN "network"
    ELSE IF name = "network" THEN "process"
    ELSE "payload"

\* the statement collect_snapshot reaches when the call of `name` returns
CallOrder(name) ==
    IF name = "vm" THEN "remote"
    ELSE IF name = "remote" THEN "screen"
    ELSE IF name = "screen" THEN "network"
    ELSE IF name = "network" THEN "process"
    ELSE IF name = "process" THEN "behavior"
    ELSE "payload"

\* main, line 86: collect_snapshot is entered with fresh locals
StartCycle ==
    /\ pc = "idle"
    /\ cycle < MaxCycles
    /\ cycle' = cycle + 1
    /\ snapshot' = EmptyDict
    /\ pc' = "vm"
    /\ UNCHANGED <<posted, response, facts, instance, previous, calls, detectVars, serverVars, monitorVars>>

\* one detector call of collect_snapshot on the facts f: its result is
\* bound to a local, or its exception leaves collect_snapshot and main,
\* which catches KeyboardInterrupt only
RunDetector(name, f) ==
    /\ pc = name
    /\ facts' = f
    /\ detector' = name
    /\ result' = AgentCall(f)
    /\ IF AgentCall(f) = Raised
       THEN /\ pc' = "crashed"
            /\ UNCHANGED snapshot
       ELSE /\ pc' = CallOrder(name)
            /\ snapshot' = [k \in DOMAIN snapshot \cup {KeyOf(name)} |->
                               IF k = KeyOf(name) THEN [made |-> cycle, result |-> AgentCall(f)]
                               ELSE snapshot[k]]
    /\ UNCHANGED <<cycle, posted, response, instance, previous, calls, serverVars, monitorVars>>

RunVm == \E f \in AgentVmFacts : RunDetector("vm", f)

RunRemote == \E f \in AgentRemoteFacts : RunDetector("remote", f)

RunScreen == \E f \in AgentScreenFacts : RunDetector("screen", f)

RunNetwork == \E f \in AgentNetworkFacts : RunDetector("network", f)

RunProcess == \E f \in AgentProcessFacts : RunDetector("process", f)

RunBehavior == \E f \in AgentBehaviorFacts : RunDetector("behavior", f)

\* a local of collect_snapshot; behavior_data starts as {}
LocalOf(snap, k) == IF k \in DOMAIN snap THEN snap[k] ELSE [made |-> 0, result |-> EmptyDict]

\* collect_snapshot builds the payload from its locals and returns it;
\* send_telemetry posts it
SendTelemetry ==
    /\ pc = "payload"
    /\ posted' = [cycle |-> cycle,
                  made  |-> [k \in SchemaKeys |-> LocalOf(snapshot, k).made],
                  body  |-> [k \in SchemaKeys |-> LocalOf(snapshot, k).result]]
    /\ pc' = "sent"
    /\ UNCHANGED <<snapshot, cycle, response, repeatVars, detectVars, serverVars, monitorVars>>

\* main, lines 91-98: what the loop prints about the value send_telemetry
\* returned
Report(answered, risk_level) ==
    IF ~answered THEN <<>>
    ELSE <<"Server Response">>
         \o (IF risk_level \in {"HIGH", "CRITICAL"} THEN <<"WARNING", "Actions">> ELSE <<>>)

\* send_telemetry returned to main with the answer or with None, and main
\* printed its report and went on to time.sleep
Responded(answered, risk_level) ==
    /\ response' = [cycle |-> cycle, answered |-> answered, risk_level |-> risk_level,
                    printed |-> Report(answered, risk_level)]
    /\ pc' = "sleep"

\* the server receives the request: ingest_telemetry runs analyze on it and
\* its 200 answer reaches send_telemetry
Deliver ==
    /\ pc = "sent"
    /\ data' = posted.body
    /\ verdict' = Analyze(posted.body)
    /\ status' = "processed"
    /\ Responded(TRUE, Analyze(posted.body).risk_level)
    /\ UNCHANGED <<snapshot, cycle, posted, repeatVars, detectVars, monitorVars>>

\* the request fails after a send that is repeated: the failed payload goes
\* out once more
Lose_resend ==
    /\ pc = "sent"
    /\ response' = [cycle |-> cycle, answered |-> FALSE, risk_level |-> "NONE", printed |-> <<>>]
    /\ pc' = "sent"
    /\ UNCHANGED <<snapshot, cycle, posted, repeatVars, detectVars, serverVars, monitorVars>>

\* the request fails before the server has it (connection error, non-200
\* answer): send_telemetry catches the exception and returns None
Lose ==
    /\ pc = "sent"
    /\ Responded(FALSE, "NONE")
    /\ UNCHANGED <<snapshot, cycle, posted, repeatVars, detectVars, serverVars, monitorVars>>

\* the server receives and analyses the request but its answer does not
\* arrive within timeout=5: send_telemetry returns None
Timeout ==
    /\ pc = "sent"
    /\ data' = posted.body
    /\ verdict' = Analyze(posted.body)
    /\ status' = "processed"
    /\ Responded(FALSE, "NONE")
    /\ UNCHANGED <<snapshot, cycle, posted, repeatVars, detectVars, monitorVars>>

\* main, line 102: Ctrl-C reaches the loop, which prints and ends
StopAgent ==
    /\ pc \notin {"crashed", "stopped"}
    /\ pc' = "stopped"
    /\ UNCHANGED <<snapshot, cycle, posted, response, repeatVars, detectVars, serverVars, monitorVars>>

\* time.sleep(interval), then the loop starts over
Sleep ==
    /\ pc = "sleep"
    /\ pc' = "idle"
    /\ posted' = NoRequest
    /\ data' = EmptyDict
    /\ verdict' = NoVerdict
    /\ status' = "idle"
    /\ facts' = NoFacts
    /\ detector' = "none"
    /\ result' = EmptyDict
    /\ UNCHANGED <<snapshot, cycle, response, instance, previous, calls, monitorVars>>

NextAgent ==
    \/ StartCycle
    \/ RunVm
    \/ RunRemote
    \/ RunScreen
    \/ RunNetwork
    \/ RunProcess
    \/ RunBehavior
    \/ SendTelemetry
    \/ Deliver
    \/ Lose
    \/ Timeout
    \/ Sleep
    \/ StopAgent

SpecAgent == Init /\ [][NextAgent]_vars

\* the points of the sub-checks whose query succeeded and crossed
PointsOf(f) ==
    IF f.name = "vm"
    THEN Cond(Hit(f.proc), 30) + Cond(Hit(f.vendor), 35) + Cond(Hit(f.mac), 20)
         + Cond(Hit(f.reg), 10) + Cond(Hit(f.cpu), 5)
    ELSE IF f.name = "remote"
    THEN Cond(Hit(f.proc), 40) + Cond(Hit(f.rdp), 35) + Cond(Hit(f.net), 20) + Cond(Hit(f.reg), 5)
    ELSE IF f.name = "screen" THEN Cond(f.displays > 1, 25) + Cond(Hit(f.sharing), 40)
    ELSE IF f.name = "network"
    THEN Cond(f.listing = "ok" /\ f.susp > 0, 35)
         + Cond(f.relisting = "ok",
                15 * f.ips + Cond(f.high_port > 10, 10) + Cond(f.private > 3, 20))
    ELSE Cond(Hit(f.susp), 40) + Cond(Hit(f.inject), 30)

\* C14: detect() never raises when an OS query fails, is denied or returns
\* malformed data; the failed sub-check contributes 0 and every other
\* sub-check of the detector still contributes its points
C14_DetectNeverRaises ==
    detector \in {"vm", "remote", "screen", "network", "process"} =>
        /\ result # Raised
        /\ ScoreOf(detector, result) = Min(100, PointsOf(facts))

\* C15: the failure of one detector in a scan cycle does not abort the
\* cycle: the results of the other detectors are still produced and sent
C15_FailureDoesNotAbortCycle ==
    result = Raised => pc # "crashed"

\* C16: a payload is sent, and fused, only after every detector of the cycle
\* has returned, and carries the results those detectors returned in that
\* same cycle: never a partial set, never a result of another cycle
C16_FusionAfterAllDetectors ==
    /\ posted # NoRequest =>
            /\ DOMAIN snapshot = SchemaKeys
            /\ posted.cycle = cycle
            /\ \A k \in SchemaKeys :
                    posted.made[k] = cycle /\ posted.body[k] = snapshot[k].result
    /\ status = "processed" =>
            /\ posted # NoRequest
            /\ data = posted.body
            /\ pc \in {"sleep", "stopped"}

\* the second cycle's payload fused, with the slow behavioural detector
\* triggered in it
C16_Witness ==
    /\ status = "processed"
    /\ cycle = 2
    /\ posted.body.behavior_data.behavior_anomaly
    /\ posted.body.network_data.network_suspicious
    /\ verdict.risk_level = "MEDIUM"


(***************************************************************************)
(* BehaviorMonitor: the two pynput listener threads deliver callbacks      *)
(* while detect() sleeps through the observation window and then analyses  *)
(* the buffers.  Listener.stop() is not joined, so a callback that was in  *)
(* flight when stop_monitoring ran may still complete afterwards.  The     *)
(* coordinates, the clock and the statistics of the samples are not        *)
(* modelled: an entry carries the number of the callback that made it      *)
(* (callbacks that record something are numbered in arrival order, and     *)
(* last_mouse_time / last_key_time hold that number), and which rules hold *)
(* on given contents is an input of the first analysis that sees them.     *)
(* The capacities and the sample threshold are scaled down together,       *)
(* keeping their order.                                                    *)
(***************************************************************************)
\* callbacks delivered in one run
MaxEvents == 5

\* detect() calls made on the one BehaviorMonitor
MaxDetects == 2

\* BehaviorMonitor(window_size): the capacity of the raw-event deques
\* (100 by default)
window_size == 3

\* the capacity of the derived-metric deques (50 in the source)
MetricsMaxLen == 2

\* the samples an analysis needs (10 in the source)
MinSamples == 1

\* which of the four mouse rules hold on the buffered samples: the first
\* one, or all but jitter (a variance below 10 excludes a jump of 500)
MouseRuleChoices ==
    {<<TRUE, FALSE, FALSE, FALSE>>, <<TRUE, TRUE, TRUE, FALSE>>}

\* which of the four keyboard rules hold: none, or all but high latency
\* (a mean below 0.05 excludes 30% of the intervals above 0.5)
KeyRuleChoices ==
    {<<FALSE, FALSE, FALSE, FALSE>>, <<TRUE, TRUE, FALSE, TRUE>>}

\* the statistics are functions of the contents: contents analysed again
\* give the rules they gave before
RulesOn(judged, contents, choices) ==
    IF judged.known /\ judged.contents = contents THEN {judged.rules} ELSE choices

\* the last n entries of a sequence
LastN(q, n) == SubSeq(q, Max(1, Len(q) - n + 1), Len(q))

DequeAppend_keep_oldest(q, x, maxlen) ==
    IF Len(q) < maxlen THEN Append(q, x) ELSE q

\* deque(maxlen=...).append: a full deque discards its leftmost entry
DequeAppend(q, x, maxlen) ==
    IF Len(q) < maxlen THEN Append(q, x) ELSE Append(Tail(q), x)

\* the capacity each deque was constructed with
MaxLenOf(buffer) ==
    IF buffer \in {"mouse_events", "keyboard_events"} THEN window_size ELSE MetricsMaxLen

\* self.<buffer>.append(x) on monitor m
Appended(m, buffer, x) ==
    [m EXCEPT ![buffer] = DequeAppend(@, x, MaxLenOf(buffer))]

\* the same append in the record of everything that arrived
Arrived(w, buffer, x) ==
    [w EXCEPT !.arrived[buffer] = Append(@, x)]

\* a listener thread can run a callback while it runs, and once more if one
\* was in flight when stop() was called
CanDeliver(listener) ==
    /\ world.events < MaxEvents
    /\ monitor[listener] \in {"running", "stopping"}

AfterCallback(state) == IF state = "stopping" THEN "stopped" ELSE state

\* the import at the top of behaviour_detector.py
Import ==
    /\ frame.pc = "unloaded"
    /\ \E available \in BOOLEAN : world' = [world EXCEPT !.pynput = available]
    /\ frame' = [frame EXCEPT !.pc = "ready"]
    /\ UNCHANGED <<monitor, exceptMonitor>>

\* detect() without pynput: the early return
DetectUnavailable ==
    /\ frame.pc = "ready"
    /\ world.pynput = FALSE
    /\ frame' = [frame EXCEPT !.pc = "returned",
                              !.results = BehaviorDetect(FALSE, EmptyDict, EmptyDict)]
    /\ world' = [world EXCEPT !.detects = @ + 1, !.called_at = world.events,
                              !.stopped_at = world.events]
    /\ UNCHANGED <<monitor, exceptMonitor>>

\* detect() with pynput: start_monitoring starts both listeners and sleeps
StartMonitoring ==
    /\ frame.pc = "ready"
    /\ world.pynput = TRUE
    /\ monitor' = [monitor EXCEPT !.monitoring = TRUE,
                                  !.listener_mouse = "running",
                                  !.listener_keyboard = "running"]
    /\ world' = [world EXCEPT !.started = @ + 1, !.slept = @ + 1,
                              !.detects = @ + 1, !.called_at = world.events]
    /\ frame' = [frame EXCEPT !.pc = "sleeping"]
    /\ UNCHANGED exceptMonitor

\* on_mouse_move; advanced: time.time() reads later than at the move before
OnMouseMove ==
    /\ CanDeliver("listener_mouse")
    /\ \E advanced \in BOOLEAN :
        LET n == world.events + 1
            timed == monitor.last_mouse_time # 0 /\ advanced
            speed == [at |-> n]
            event == [at |-> n, type |-> "move"]
            m1 == IF timed THEN Appended(monitor, "mouse_speeds", speed) ELSE monitor
            w1 == IF timed THEN Arrived(world, "mouse_speeds", speed) ELSE world
            m2 == Appended(m1, "mouse_events", event)
            w2 == Arrived(w1, "mouse_events", event)
        IN  /\ monitor' = [m2 EXCEPT !.last_mouse_time = n,
                                     !.listener_mouse = AfterCallback(@)]
            /\ world' = [w2 EXCEPT !.events = n]
    /\ UNCHANGED <<frame, exceptMonitor>>

\* on_mouse_click: a release records nothing
OnMouseClick ==
    /\ CanDeliver("listener_mouse")
    /\ \E pressed \in BOOLEAN :
        LET n == world.events + 1
            event == [at |-> n, type |-> "click"]
        IN  /\ monitor' = [(IF pressed THEN Appended(monitor, "mouse_events", event)
                                       ELSE monitor)
                              EXCEPT !.listener_mouse = AfterCallback(@)]
            /\ world' = IF pressed
                        THEN [Arrived(world, "mouse_events", event) EXCEPT !.events = n]
                        ELSE world
    /\ UNCHANGED <<frame, exceptMonitor>>

\* on_key_press
OnKeyPress ==
    /\ CanDeliver("listener_keyboard")
    /\ LET n == world.events + 1
           timed == monitor.last_key_time # 0
           interval == [at |-> n]
           event == [at |-> n, type |-> "press"]
           m1 == IF timed THEN Appended(monitor, "key_intervals", interval) ELSE monitor
           w1 == IF timed THEN Arrived(world, "key_intervals", interval) ELSE world
           m2 == Appended(m1, "keyboard_events", event)
           w2 == Arrived(w1, "keyboard_events", event)
       IN  /\ monitor' = [m2 EXCEPT !.last_key_time = n,
                                    !.listener_keyboard = AfterCallback(@)]
           /\ world' = [w2 EXCEPT !.events = n]
    /\ UNCHANGED <<frame, exceptMonitor>>

\* a stopped listener thread ends; nothing was in flight
ListenerExit ==
    /\ \E listener \in {"listener_mouse", "listener_keyboard"} :
        /\ monitor[listener] = "stopping"
        /\ monitor' = [monitor EXCEPT ![listener] = "stopped"]
    /\ UNCHANGED <<frame, world, exceptMonitor>>

StopMonitoring_keep_listeners ==
    /\ frame.pc = "sleeping"
    /\ monitor' = [monitor EXCEPT !.monitoring = FALSE]
    /\ frame' = [frame EXCEPT !.pc = "mouse_test"]
    /\ UNCHANGED <<world, exceptMonitor>>

\* time.sleep(duration) returns; stop_monitoring() asks both listeners to stop
StopMonitoring ==
    /\ frame.pc = "sleeping"
    /\ monitor' = [monitor EXCEPT !.monitoring = FALSE,
                                  !.listener_mouse = "stopping",
                                  !.listener_keyboard = "stopping"]
    /\ frame' = [frame EXCEPT !.pc = "mouse_test"]
    /\ world' = [world EXCEPT !.stopped_at = world.events]
    /\ UNCHANGED exceptMonitor

\* analyze_mouse_behavior, line 132: the test reads the live deque
MouseSufficiency ==
    /\ frame.pc = "mouse_test"
    /\ LET n == Len(monitor.mouse_speeds)
       IN  frame' = IF n < MinSamples
                    THEN [frame EXCEPT !.pc = "key_test", !.speeds_len = n,
                              !.mouse_analysis =
                                  AnalyzeMouseBehavior(FALSE, FALSE, FALSE, FALSE, FALSE)]
                    ELSE [frame EXCEPT !.pc = "mouse_copy", !.speeds_len = n]
    /\ UNCHANGED <<monitor, world, exceptMonitor>>

\* line 143: speeds = list(self.mouse_speeds)
MouseSnapshot ==
    /\ frame.pc = "mouse_copy"
    /\ frame' = [frame EXCEPT !.pc = "mouse_rules", !.speeds = monitor.mouse_speeds]
    /\ UNCHANGED <<monitor, world, exceptMonitor>>

\* line 159: rule 3 reads len(self.mouse_events)
MouseRules ==
    /\ frame.pc = "mouse_rules"
    /\ frame' = [frame EXCEPT !.pc = "mouse_stats",
                              !.events_len = Len(monitor.mouse_events),
                              !.events = monitor.mouse_events]
    /\ UNCHANGED <<monitor, world, exceptMonitor>>

\* lines 187-196: the returned dict; event_count reads the deque again
MouseStats ==
    /\ frame.pc = "mouse_stats"
    /\ LET contents == <<frame.speeds, frame.events>>
       IN  \E r \in RulesOn(world.judged.mouse, contents, MouseRuleChoices) :
            /\ frame' = [frame EXCEPT
                    !.pc = "key_test",
                    !.mouse_analysis =
                        [k \in {"sufficient_data", "anomaly_score", "indicators", "stats"} |->
                            IF k = "stats"
                            THEN [samples |-> frame.speeds,
                                  event_count |-> Len(monitor.mouse_events)]
                            ELSE AnalyzeMouseBehavior(TRUE, r[1], r[2], r[3], r[4])[k]]]
            /\ world' = [world EXCEPT !.judged.mouse = [known |-> TRUE, contents |-> contents, rules |-> r]]
    /\ UNCHANGED <<monitor, exceptMonitor>>

\* analyze_keyboard_behavior, line 200
KeySufficiency ==
    /\ frame.pc = "key_test"
    /\ LET n == Len(monitor.key_intervals)
       IN  frame' = IF n < MinSamples
                    THEN [frame EXCEPT !.pc = "aggregate", !.intervals_len = n,
                              !.keyboard_analysis =
                                  AnalyzeKeyboardBehavior(FALSE, FALSE, FALSE, FALSE, FALSE)]
                    ELSE [frame EXCEPT !.pc = "key_copy", !.intervals_len = n]
    /\ UNCHANGED <<monitor, world, exceptMonitor>>

\* line 210: intervals = list(self.key_intervals)
KeySnapshot ==
    /\ frame.pc = "key_copy"
    /\ frame' = [frame EXCEPT !.pc = "key_stats", !.intervals = monitor.key_intervals]
    /\ UNCHANGED <<monitor, world, exceptMonitor>>

\* lines 244-253
KeyStats ==
    /\ frame.pc = "key_stats"
    /\ LET contents == frame.intervals
       IN  \E r \in RulesOn(world.judged.keyboard, contents, KeyRuleChoices) :
            /\ frame' = [frame EXCEPT
                    !.pc = "aggregate",
                    !.keyboard_analysis =
                        [k \in {"sufficient_data", "anomaly_score", "indicators", "stats"} |->
                            IF k = "stats"
                            THEN [samples |-> frame.intervals,
                                  event_count |-> Len(monitor.keyboard_events)]
                            ELSE AnalyzeKeyboardBehavior(TRUE, r[1], r[2], r[3], r[4])[k]]]
            /\ world' = [world EXCEPT !.judged.keyboard = [known |-> TRUE, contents |-> contents, rules |-> r]]
    /\ UNCHANGED <<monitor, exceptMonitor>>

\* detect(), lines 282-301
Aggregate ==
    /\ frame.pc = "aggregate"
    /\ frame' = [frame EXCEPT
                    !.pc = "returned",
                    !.results = BehaviorDetect(TRUE, frame.mouse_analysis,
                                               frame.keyboard_analysis)]
    /\ UNCHANGED <<monitor, world, exceptMonitor>>

\* the main loop's next collect_snapshot calls detect() on the same
\* BehaviorMonitor: the locals are new, the object is as the call before
\* left it
CallAgain_cleared ==
    /\ frame.pc = "returned"
    /\ world.detects < MaxDetects
    /\ frame' = [NoFrame EXCEPT !.pc = "ready"]
    /\ monitor' = [NewMonitor EXCEPT !.listener_mouse = monitor.listener_mouse,
                                     !.listener_keyboard = monitor.listener_keyboard]
    /\ world' = [world EXCEPT !.last = [called_at |-> world.called_at,
                                        stopped_at |-> world.stopped_at,
                                        mouse_analysis |-> frame.mouse_analysis,
                                        keyboard_analysis |-> frame.keyboard_analysis,
                                        results |-> frame.results]]
    /\ UNCHANGED exceptMonitor

CallAgain ==
    /\ frame.pc = "returned"
    /\ world.detects < MaxDetects
    /\ frame' = [NoFrame EXCEPT !.pc = "ready"]
    /\ world' = [world EXCEPT !.last = [called_at |-> world.called_at,
                                        stopped_at |-> world.stopped_at,
                                        mouse_analysis |-> frame.mouse_analysis,
                                        keyboard_analysis |-> frame.keyboard_analysis,
                                        results |-> frame.results]]
    /\ UNCHANGED <<monitor, exceptMonitor>>

\* KeyboardInterrupt raised in time.sleep(duration): start_monitoring has no
\* try / finally, so the exception leaves it, detect() and collect_snapshot
\* and reaches main's handler; stop_monitoring is not called
Interrupt ==
    /\ frame.pc = "sleeping"
    /\ frame' = [frame EXCEPT !.pc = "interrupted"]
    /\ UNCHANGED <<monitor, world, exceptMonitor>>

NextMonitor ==
    \/ Import
    \/ DetectUnavailable
    \/ StartMonitoring
    \/ OnMouseMove
    \/ OnMouseClick
    \/ OnKeyPress
    \/ ListenerExit
    \/ StopMonitoring
    \/ MouseSufficiency
    \/ MouseSnapshot
    \/ MouseRules
    \/ MouseStats
    \/ KeySufficiency
    \/ KeySnapshot
    \/ KeyStats
    \/ Aggregate
    \/ Interrupt
    \/ CallAgain

SpecMonitor == Init /\ [][NextMonitor]_vars

\* the steps of the thread that called detect(): the sleep returns after
\* duration seconds and every later step is a finite computation
DetectSteps ==
    \/ StopMonitoring
    \/ MouseSufficiency
    \/ MouseSnapshot
    \/ MouseRules
    \/ MouseStats
    \/ KeySufficiency
    \/ KeySnapshot
    \/ KeyStats
    \/ Aggregate

SpecMonitorFair == SpecMonitor /\ WF_vars(DetectSteps)

\* the sub-score a finished analysis contributes: 0 without enough samples
SubScore(analysis) ==
    IF analysis.sufficient_data THEN Min(analysis.anomaly_score, 100) ELSE 0

\* C17: a detect() call that observed returns the aggregate score
\* 0.5 * mouse sub-score + 0.5 * keyboard sub-score, a side without enough
\* samples counting 0; its sufficient_data is true exactly when one side had
\* enough samples; with neither side sufficient the score is 0 and the result
\* is not triggered.
C17_AggregateOfSubScores ==
    (frame.pc = "returned" /\ world.pynput = TRUE) =>
        /\ 2 * frame.results.anomaly_score
               = SubScore(frame.mouse_analysis) + SubScore(frame.keyboard_analysis)
        /\ "sufficient_data" \in DOMAIN frame.results
        /\ frame.results.sufficient_data
               = (frame.mouse_analysis.sufficient_data
                  \/ frame.keyboard_analysis.sufficient_data)
        /\ (~frame.mouse_analysis.sufficient_data /\ ~frame.keyboard_analysis.sufficient_data
               => frame.results.anomaly_score = 0 /\ ~frame.results.behavior_anomaly)

\* C18: without pynput detect() returns without having started a listener or
\* slept, and its result reports sufficient_data = false, score 0, not
\* triggered, with one informational finding.
C18_UnavailableReportsInsufficient ==
    (frame.pc = "returned" /\ world.pynput = FALSE) =>
        /\ world.started = 0
        /\ world.slept = 0
        /\ monitor.listener_mouse = "none"
        /\ monitor.listener_keyboard = "none"
        /\ frame.results.anomaly_score = 0
        /\ ~frame.results.behavior_anomaly
        /\ frame.results.findings = <<"pynput not available">>
        /\ "sufficient_data" \in DOMAIN frame.results
        /\ frame.results.sufficient_data = FALSE

BufferNames == {"mouse_events", "keyboard_events", "mouse_speeds", "key_intervals"}

\* C19: after any sequence of callbacks each raw-event buffer holds at most
\* window_size entries and each derived-metric buffer at most MetricsMaxLen,
\* and each buffer is exactly the most recent entries that arrived, in
\* arrival order: an overflow evicted the oldest.
C19_BuffersHoldMostRecent ==
    \A b \in BufferNames :
        /\ Len(monitor[b]) <= MaxLenOf(b)
        /\ monitor[b] = LastN(world.arrived[b], MaxLenOf(b))

\* both mouse buffers have overflowed, and a click is among the kept events
C19_Witness ==
    /\ Len(world.arrived.mouse_events) > window_size
    /\ Len(world.arrived.mouse_speeds) > MetricsMaxLen
    /\ Len(monitor.mouse_events) = window_size
    /\ Len(monitor.mouse_speeds) = MetricsMaxLen
    /\ monitor.mouse_events[window_size].type = "click"
    /\ monitor.mouse_events[1] # world.arrived.mouse_events[1]

\* C20: every read one analysis makes of a buffer sees the same contents: the
\* length the sufficiency test saw is the length of the copied samples, and
\* the event count rule 3 saw is the event count the stats report.
C20_AnalysisSeesOneSnapshot ==
    /\ ("stats" \in DOMAIN frame.mouse_analysis) =>
           /\ frame.speeds_len = Len(frame.mouse_analysis.stats.samples)
           /\ frame.events_len = frame.mouse_analysis.stats.event_count
    /\ ("stats" \in DOMAIN frame.keyboard_analysis) =>
           frame.intervals_len = Len(frame.keyboard_analysis.stats.samples)

\* C21: a cycle cancelled inside the observation window leaves both
\* listeners stopped and monitoring False, and the behavioural result reports
\* sufficient_data = false.
C21_CancelStopsListeners ==
    frame.pc = "interrupted" =>
        /\ ~monitor.monitoring
        /\ monitor.listener_mouse # "running"
        /\ monitor.listener_keyboard # "running"
        /\ "sufficient_data" \in DOMAIN frame.results
        /\ frame.results.sufficient_data = FALSE

SameSubScores ==
    /\ frame.mouse_analysis = world.last.mouse_analysis
    /\ frame.keyboard_analysis = world.last.keyboard_analysis

Discard ==
    /\ detector # "none"
    /\ detector' = "none"
    /\ result' = EmptyDict
    /\ facts' = NoFacts
    /\ UNCHANGED <<instance, previous, calls, serverVars, agentVars, monitorVars>>

\* the function was applied to inputs f and returned r
Scored(name, f, r) ==
    /\ detector = "none"
    /\ detector' = name
    /\ facts' = f
    /\ result' = r
    /\ UNCHANGED <<instance, previous, calls, serverVars, agentVars, monitorVars>>

\* sum of f[i] over i in 1..n
RECURSIVE SumTo(_, _)
SumTo(f, n) == IF n = 0 THEN 0 ELSE f[n] + SumTo(f, n - 1)

\* NetworkAnalyzer.suspicious_ports
suspicious_ports == {3389, 5900, 5800, 5938, 7070, 22, 23, 4899, 6129, 5631, 5632, 8080, 1080, 9050}

\* remote endpoints of ESTABLISHED connections.  An ip is the sequence of
\* its ':'-separated fields and a field the sequence of its '.'-separated
\* parts: an IPv4 address is one field of four parts, an IPv6 address is
\* several fields of one part.
Endpoints ==
    <<[ip |-> << <<"93", "184", "216", "34">> >>, port |-> 443],
      [ip |-> << <<"192", "168", "1", "5">> >>, port |-> 3389],
      [ip |-> << <<"2a00">>, <<"1450">>, <<"200e">> >>, port |-> 50000],
      [ip |-> << <<"2a00">>, <<"1450">>, <<"200f">> >>, port |-> 50000]>>

\* how many connections one endpoint can have
ConnectionCounts == {0, 3, 6}

\* f"{conn.raddr.ip}:{conn.raddr.port}"
RemoteAddr(conn) == conn.ip \o << <<conn.port>> >>

\* remote_addr.split(':')[0]
SplitIp(remote_addr) == remote_addr[1]

\* any(ip.startswith(prefix) for prefix in ['192.168.', '10.', '172.16.', '172.17.', '172.18.'])
StartsWithPrivate(ip) ==
    /\ Len(ip) >= 2
    /\ \/ ip[1] = "192" /\ ip[2] = "168"
       \/ ip[1] = "10"
       \/ ip[1] = "172" /\ ip[2] \in {"16", "17", "18"}

\* check_suspicious_connections: the findings, one per connection whose
\* remote port is in suspicious_ports (no local port is)
SuspiciousCount(counts) ==
    SumTo([i \in 1..Len(Endpoints) |->
              IF Endpoints[i].port \in suspicious_ports THEN counts[i] ELSE 0], Len(Endpoints))

\* analyze_connection_patterns: remote_ips, the connections counted by
\* remote_addr.split(':')[0]
RemoteIps(counts) ==
    LET keys == {SplitIp(RemoteAddr(Endpoints[i])) : i \in {j \in 1..Len(Endpoints) : counts[j] > 0}}
    IN  [ip \in keys |->
            SumTo([i \in 1..Len(Endpoints) |->
                      IF SplitIp(RemoteAddr(Endpoints[i])) = ip THEN counts[i] ELSE 0],
                  Len(Endpoints))]

\* analyze_connection_patterns on the connection list
ConnectionPatterns(counts) ==
    LET remote_ips == RemoteIps(counts)
        offending == Cardinality({ip \in DOMAIN remote_ips : remote_ips[ip] > 5})
        high_port_connections ==
            SumTo([i \in 1..Len(Endpoints) |->
                      IF Endpoints[i].port > 10000 THEN counts[i] ELSE 0], Len(Endpoints))
        private_connections ==
            SumTo([i \in 1..Len(Endpoints) |->
                      IF StartsWithPrivate(SplitIp(RemoteAddr(Endpoints[i]))) THEN counts[i] ELSE 0],
                  Len(Endpoints))
    IN  AnalyzeConnectionPatterns(offending, high_port_connections, private_connections)

\* NetworkAnalyzer.detect(measure_bandwidth) on a connection list and the
\* measured rates
ScoreNetwork ==
    /\ detector = "none"
    /\ \E counts \in [1..Len(Endpoints) -> ConnectionCounts],
          bw \in BOOLEAN, up \in Rates, down \in Rates :
        /\ (~bw => up = 0 /\ down = 0)
        /\ Scored("network",
                  [name |-> "network", counts |-> counts, measure_bandwidth |-> bw,
                   send_rate |-> up, recv_rate |-> down],
                  NetworkDetect(SuspiciousCount(counts), ConnectionPatterns(counts),
                                bw, MeasureBandwidth(up, down)))

\* the processes psutil.process_iter can yield: readable is FALSE when the
\* name is None, keywords is how many of suspicious_names occur in the
\* lower-cased name, temp whether the exe path holds one of the temp
\* directories, num_threads the thread count
MaxProcs == 2
Procs ==
    [readable : BOOLEAN, keywords : 0..2, temp : BOOLEAN, num_threads : {4, 100, 101}]
ProcessLists == UNION {[1..n -> Procs] : n \in 0..MaxProcs}

\* the entries check_suspicious_processes appends for one process
NameMatches(proc) == proc.keywords
TempMatches(proc) == IF proc.temp THEN 1 ELSE 0

\* check_suspicious_processes: the loop over process_iter from process i on;
\* proc.info['name'].lower() raises on a name of None and the outer except
\* ends the loop with what was appended so far
RECURSIVE SuspiciousFrom(_, _)
SuspiciousFrom(procs, i) ==
    IF i > Len(procs) THEN [names |-> 0, temps |-> 0]
    ELSE IF ~procs[i].readable THEN [names |-> 0, temps |-> 0]
    ELSE LET rest == SuspiciousFrom(procs, i + 1)
         IN  [names |-> NameMatches(procs[i]) + rest.names,
              temps |-> TempMatches(procs[i]) + rest.temps]

CheckSuspiciousProcesses(procs) == SuspiciousFrom(procs, 1)

\* check_process_injection: some process has more than 100 threads
CheckProcessInjection(procs) == \E i \in 1..Len(procs) : procs[i].num_threads > 100

\* ProcessAnalyzer.analyze() on a process list
ScoreProcess ==
    /\ detector = "none"
    /\ \E procs \in ProcessLists :
        LET susp == CheckSuspiciousProcesses(procs)
        IN  Scored("process",
                   [name |-> "process", procs |-> procs,
                    names |-> susp.names, temps |-> susp.temps,
                    inject |-> CheckProcessInjection(procs)],
                   ProcessAnalyze(susp.names + susp.temps, CheckProcessInjection(procs)))

\* sample sequences: `first` times the value a, then `then` times the
\* value b (kind "blocks"), or a and b in turn (kind "alternating")
Pattern(kind, a, first, b, then) ==
    [i \in 1..(first + then) |->
        IF kind = "blocks" THEN (IF i <= first THEN a ELSE b)
        ELSE (IF i % 2 = 1 THEN a ELSE b)]

\* lengths of the two parts of a sample sequence: the sums pass each sample
\* count that analyze_mouse_behavior and analyze_keyboard_behavior test
FirstLens == {0, 3}
ThenLens == {8, 10, 11, 15, 16, 20, 21}

\* key_intervals in milliseconds (time.time() differences of on_key_press)
IntervalValues == {10, 40, 600}
KeyIntervals ==
    {Pattern(k, a, m, b, n) : k \in {"blocks", "alternating"}, a \in IntervalValues,
                              m \in FirstLens, b \in IntervalValues, n \in ThenLens}

\* mouse_speeds in pixels per second (distance / dt of on_mouse_move)
SpeedValues == {100, 102, 4000}
MouseSpeeds ==
    {Pattern(k, a, m, b, n) : k \in {"blocks", "alternating"}, a \in SpeedValues,
                              m \in FirstLens, b \in SpeedValues, n \in {8, 10, 11, 20, 21}}

\* mouse_events: n events of one kind after `first` clicks on one spot; a
\* "line" is moves along y = 0, a "column" moves along x = 0, "clicks" are
\* clicks along y = 0 and a "zigzag" moves with y alternating
MouseEvent(kind, i) ==
    [type |-> IF kind = "clicks" THEN "click" ELSE "move",
     x    |-> IF kind = "column" THEN 0 ELSE i,
     y    |-> IF kind = "column" THEN i ELSE IF kind = "zigzag" THEN i % 2 ELSE 0]
MouseEvents ==
    {[i \in 1..(m + n) |->
         IF i <= m THEN [type |-> "click", x |-> 0, y |-> 0] ELSE MouseEvent(k, i)] :
       k \in {"line", "column", "clicks", "zigzag"}, m \in FirstLens, n \in {5, 20, 21}}

\* sum(s) and sum(x * x for x in s)
SeqSum(s) == SumTo(s, Len(s))
SumOfSquares(s) == SumTo([i \in 1..Len(s) |-> s[i] * s[i]], Len(s))

\* the smallest and the largest sample
Smallest(s) == CHOOSE x \in {s[i] : i \in 1..Len(s)} : \A i \in 1..Len(s) : x <= s[i]
Largest(s) == CHOOSE x \in {s[i] : i \in 1..Len(s)} : \A i \in 1..Len(s) : x >= s[i]

\* statistics.variance(s) < limit.  The sample variance is
\* (n * sum(x^2) - sum(x)^2) / (n * (n - 1)); it does not change when every
\* sample is moved by the same amount, and its numerator is the sum of the
\* squared differences of all pairs, so it is at least (max - min)^2.
VarianceBelow(s, limit) ==
    LET n == Len(s)
        d == [i \in 1..n |-> s[i] - Smallest(s)]
    IN  /\ (Largest(s) - Smallest(s)) * (Largest(s) - Smallest(s)) < limit * n * (n - 1)
        /\ n * SumOfSquares(d) - SeqSum(d) * SeqSum(d) < limit * n * (n - 1)

\* analyze_mouse_behavior, rule 1: len(speeds) > 20 and variance < 10
SpeedTooConsistent(speeds) == Len(speeds) > 20 /\ VarianceBelow(speeds, 10)

\* rule 2: statistics.mean(speeds) > 3000
SpeedTooHigh(speeds) == SeqSum(speeds) > 3000 * Len(speeds)

\* rule 3: straight_line_count over i in range(len(events) - 3); i is the
\* one-based index of events[i]
straight_line_count(events) ==
    Cardinality({i \in 1..(Len(events) - 3) :
        LET dx1 == events[i + 1].x - events[i].x
            dy1 == events[i + 1].y - events[i].y
            dx2 == events[i + 2].x - events[i + 1].x
            dy2 == events[i + 2].y - events[i + 1].y
        IN  /\ events[i].type = "move"
            /\ dx1 # 0 /\ dx2 # 0
            /\ 100 * Abs(dy1 * dx2 - dy2 * dx1) < Abs(dx1 * dx2)})

\* rule 3: len(self.mouse_events) > 20 and straight_ratio > 0.7
TooManyStraight(events) ==
    /\ Len(events) > 20
    /\ 10 * straight_line_count(events) > 7 * (Len(events) - 3)

\* rule 4: rapid_changes, the neighbours more than 500 apart
rapid_changes(speeds) ==
    Cardinality({i \in 1..(Len(speeds) - 1) : Abs(speeds[i] - speeds[i + 1]) > 500})

\* rule 4: len(speeds) > 10 and jitter_ratio > 0.4
HighJitter(speeds) ==
    /\ Len(speeds) > 10
    /\ 5 * rapid_changes(speeds) > 2 * (Len(speeds) - 1)

\* analyze_mouse_behavior on the buffered speeds and events
MouseBehavior(speeds, events) ==
    AnalyzeMouseBehavior(Len(speeds) >= 10, SpeedTooConsistent(speeds), SpeedTooHigh(speeds),
                         TooManyStraight(events), HighJitter(speeds))

\* analyze_keyboard_behavior, rule 1: len(intervals) > 15 and variance < 0.001
RoboticTyping(intervals) == Len(intervals) > 15 /\ VarianceBelow(intervals, 1000)

\* rule 2: statistics.mean(intervals) < 0.05
FastTyping(intervals) == SeqSum(intervals) < 50 * Len(intervals)

\* rule 3: len(intervals) > 20 and high_latency_count > len(intervals) * 0.3
high_latency_count(intervals) == Cardinality({i \in 1..Len(intervals) : intervals[i] > 500})
HighLatency(intervals) ==
    /\ Len(intervals) > 20
    /\ 10 * high_latency_count(intervals) > 3 * Len(intervals)

\* all(val < 0.03 for val in intervals[i:i+5]), i zero-based
BurstWindow(intervals, i) == \A j \in 1..5 : intervals[i + j] < 30

\* rule 4: burst_count over i in range(len(intervals) - 5)
burst_count(intervals) ==
    Cardinality({i \in 0..(Len(intervals) - 6) : BurstWindow(intervals, i)})

\* rule 4: len(intervals) > 10 and burst_count > 3
TypingBursts(intervals) == Len(intervals) > 10 /\ burst_count(intervals) > 3

\* analyze_keyboard_behavior on the buffered intervals
KeyboardBehavior(intervals) ==
    AnalyzeKeyboardBehavior(Len(intervals) >= 10, RoboticTyping(intervals), FastTyping(intervals),
                            HighLatency(intervals), TypingBursts(intervals))

\* analyze_mouse_behavior() with these buffers
ScoreMouse ==
    /\ detector = "none"
    /\ \E speeds \in MouseSpeeds, events \in MouseEvents :
        Scored("mouse", [name |-> "mouse", speeds |-> speeds, events |-> events],
               MouseBehavior(speeds, events))

\* analyze_keyboard_behavior() with this buffer
ScoreKeyboard ==
    /\ detector = "none"
    /\ \E intervals \in KeyIntervals :
        Scored("keyboard", [name |-> "keyboard", intervals |-> intervals],
               KeyboardBehavior(intervals))

\* the buffers detect() analyses after its observation window
DetectBuffers ==
    {[name |-> "behavior", speeds |-> s, events |-> e, intervals |-> k] :
        s \in {Pattern("blocks", 4000, 0, 4000, n) : n \in {8, 21}}
              \cup {Pattern("alternating", 100, 0, 4000, 21)},
        e \in {[i \in 1..n |-> MouseEvent("line", i)] : n \in {5, 21}},
        k \in KeyIntervals}

\* detect() after an observation window that left these buffers
ScoreBehavior ==
    /\ detector = "none"
    /\ \E f \in DetectBuffers :
        Scored("behavior", f,
               BehaviorDetect(TRUE, MouseBehavior(f.speeds, f.events),
                              KeyboardBehavior(f.intervals)))

NextScore ==
    \/ ScoreNetwork
    \/ ScoreProcess
    \/ ScoreMouse
    \/ ScoreKeyboard
    \/ ScoreBehavior
    \/ Discard

SpecScore == Init /\ [][NextScore]_vars

\* the remote addresses with more than 5 connections
BusyAddresses(counts) ==
    {Endpoints[i].ip : i \in {j \in 1..Len(Endpoints) : counts[j] > 5}}

\* C23: the network risk_score is min(100, 35 if a connection is on a
\* suspicious port + 15 per remote address with more than 5 connections + 10
\* if more than 10 connections go to ports above 10000 + 20 if more than 3
\* connections go to private-network peers + 25 / 15 / 20 bandwidth points
\* when bandwidth is measured), and the result is triggered iff that is > 30.
C23_NetworkScoreFormula ==
    detector = "network" /\ "counts" \in DOMAIN facts =>
        LET counts == facts.counts
            high == SumTo([i \in 1..Len(Endpoints) |->
                              IF Endpoints[i].port > 10000 THEN counts[i] ELSE 0], Len(Endpoints))
            private == SumTo([i \in 1..Len(Endpoints) |->
                                 IF Endpoints[i].ip[1][1] \in {"192", "10", "172"} THEN counts[i] ELSE 0],
                             Len(Endpoints))
            bandwidth == Cond(facts.send_rate > 500, 25) + Cond(facts.recv_rate > 1000, 15)
                         + Cond(facts.send_rate + facts.recv_rate > 1500, 20)
            score == Min(100, Cond(SuspiciousCount(counts) > 0, 35)
                              + 15 * Cardinality(BusyAddresses(counts))
                              + Cond(high > 10, 10) + Cond(private > 3, 20)
                              + Cond(facts.measure_bandwidth, bandwidth))
        IN  /\ result.risk_score = score
            /\ result.network_suspicious = (score > 30)

\* C24: in ProcessAnalyzer.analyze a keyword name match contributes 40 points
\* and a process with more than 100 threads 30 points; the processes running
\* from a temp directory contribute per match, so that a temp match adds to
\* the score beside a name match and the score grows with the number of
\* temp-directory processes.
C24_TempMatchesAdditive ==
    detector = "process" /\ "procs" \in DOMAIN facts =>
        LET base == Cond(facts.names > 0, 40) + Cond(facts.inject, 30)
        IN  /\ facts.temps = 0 => result.risk_score = base
            /\ facts.temps > 0 => result.risk_score > base
            /\ facts.temps > 1 =>
                   result.risk_score
                     > ProcessAnalyze(facts.names + facts.temps - 1, facts.inject).risk_score

\* C29: ProcessAnalyzer.analyze returns a score in {0, 30, 40, 70}; it is
\* triggered exactly when check_suspicious_processes found a name or a temp
\* match; a thread count above 100 alone gives 30 and does not trigger; the
\* hidden-process check adds no points and no finding.
C29_ProcessScores ==
    detector = "process" /\ "procs" \in DOMAIN facts =>
        LET found == facts.names + facts.temps > 0
        IN  /\ result.risk_score \in {0, 30, 40, 70}
            /\ result.process_suspicious = found
            /\ result.risk_score = Cond(found, 40) + Cond(facts.inject, 30)
            /\ facts.inject /\ ~found =>
                   result.risk_score = 30 /\ ~result.process_suspicious
            /\ \A i \in 1..Len(result.findings) : result.findings[i] # "Hidden process"

\* a call that saw only a process with more than 100 threads
C29_Witness ==
    /\ detector = "process" /\ "procs" \in DOMAIN facts
    /\ facts.inject
    /\ facts.names + facts.temps = 0
    /\ result.risk_score = 30
    /\ ~result.process_suspicious

\* x is one of the entries of the list
Among(x, list) == \E i \in 1..Len(list) : list[i] = x

\* C25: every sub-check with a minimum sample count runs at exactly that
\* count: variance of 20 speeds, jitter of 10 speeds, straight paths of 20
\* mouse events, robotic timing of 15 intervals, latency of 20 intervals and
\* bursts of 10 intervals each add their indicator when their condition holds.
C25_ChecksRunAtMinimum ==
    /\ detector = "mouse" /\ Len(facts.speeds) >= 10 =>
          /\ Len(facts.speeds) = 20 /\ VarianceBelow(facts.speeds, 10) =>
                 Among("Mouse speed too consistent", result.indicators)
          /\ Len(facts.speeds) = 10
                /\ 5 * rapid_changes(facts.speeds) > 2 * (Len(facts.speeds) - 1) =>
                 Among("High mouse jitter detected", result.indicators)
          /\ Len(facts.events) = 20
                /\ 10 * straight_line_count(facts.events) > 7 * (Len(facts.events) - 3) =>
                 Among("Too many straight mouse movements", result.indicators)
    /\ detector = "keyboard" =>
          /\ Len(facts.intervals) = 15 /\ VarianceBelow(facts.intervals, 1000) =>
                 Among("Typing intervals too consistent", result.indicators)
          /\ Len(facts.intervals) = 20
                /\ 10 * high_latency_count(facts.intervals) > 3 * Len(facts.intervals) =>
                 Among("High typing latency detected", result.indicators)
          /\ Len(facts.intervals) = 10 /\ burst_count(facts.intervals) > 3 =>
                 Among("Multiple typing bursts detected", result.indicators)

\* the windows of 5 intervals that hold only intervals below the burst
\* threshold, every one of the n - 4 windows counted
burst_count_every_window(intervals) ==
    Cardinality({i \in 0..(Len(intervals) - 5) : BurstWindow(intervals, i)})

\* C26: with more than 10 intervals analyze_keyboard_behavior reports the
\* burst pattern exactly when more than 3 of the 5-interval windows hold only
\* intervals below the burst threshold, every one of the n - 4 windows of n
\* intervals counted, the one ending at the last interval too.
C26_BurstCountsEveryWindow ==
    detector = "keyboard" /\ Len(facts.intervals) > 10 =>
        (Among("Multiple typing bursts detected", result.indicators)
            <=> burst_count_every_window(facts.intervals) > 3)

\* C27: with fewer than 10 key intervals detect() is not triggered whatever
\* the mouse rules find (the mouse sub-score is at most 80 and its half not
\* above 40); a triggered result has both sides sufficient and sub-scores
\* that sum to more than 80.
C27_MouseAloneNeverTriggers ==
    detector = "behavior" /\ "speeds" \in DOMAIN facts =>
        LET m == MouseBehavior(facts.speeds, facts.events)
            k == KeyboardBehavior(facts.intervals)
        IN  /\ m.anomaly_score <= 80
            /\ Len(facts.intervals) < 10 => ~result.behavior_anomaly
            /\ result.behavior_anomaly =>
                   /\ m.sufficient_data /\ k.sufficient_data
                   /\ m.anomaly_score + k.anomaly_score > 80

\* the mouse rules found 60 points and the keyboard side had too few intervals
C27_Witness ==
    /\ detector = "behavior" /\ "speeds" \in DOMAIN facts
    /\ Len(facts.intervals) < 10
    /\ MouseBehavior(facts.speeds, facts.events).anomaly_score = 60
    /\ result.anomaly_score = 30
    /\ ~result.behavior_anomaly

\* send_telemetry has returned None in the current cycle
SendFailed == response.cycle = cycle /\ cycle > 0 /\ ~response.answered

\* what a failed send does: it returns None to main without raising, main
\* prints neither a server response nor a warning and sleeps; after the
\* sleep the next cycle collects a new snapshot, the failed payload is not
\* posted again, and between the send and the next cycle only Ctrl-C ends
\* the loop
FailureReturnsNone ==
    pc = "sent" /\ response' # response /\ ~response'.answered =>
        pc' = "sleep" /\ response'.cycle = cycle /\ posted' = posted

SleepThenNextCycle ==
    pc \in {"sent", "sleep", "idle"} /\ pc' # pc =>
        \/ pc = "sent" /\ pc' = "sleep"
        \/ pc = "sleep" /\ pc' = "idle" /\ posted' = NoRequest
        \/ pc = "idle" /\ pc' = "vm" /\ cycle' = cycle + 1 /\ snapshot' = EmptyDict
        \/ pc' = "stopped"

FailedSendSkipsCycle ==
    /\ [](SendFailed /\ pc = "sleep" => response.printed = <<>>)
    /\ [](pc = "sent" => /\ response.cycle < cycle
                         /\ posted.cycle = cycle
                         /\ \A k \in SchemaKeys : posted.made[k] = cycle)
    /\ [][FailureReturnsNone]_vars
    /\ [][SleepThenNextCycle]_vars

\* the loop ends without Ctrl-C only when a detector call raises
EndsByRaise ==
    pc' = "crashed" /\ pc # "crashed" =>
        /\ pc \in {"vm", "remote", "screen", "network", "process", "behavior"}
        /\ result' = Raised

====
